---- MODULE Spec2Model ----
(***************************************************************************)
(* Garoon -> Google Calendar one-way reconciliation (SyncService), with    *)
(* the JSON sync-state store (SyncDatabase), the Google Calendar adapter   *)
(* (GoogleCalendarClient) and the retry policy (withRetry).                *)
(*                                                                         *)
(* Source ids are the integer-like strings Garoon hands out and are        *)
(* modelled as positive integers.  Timestamps (updatedAt) are modelled as  *)
(* small integers that are only ever compared for equality, as in the code.*)
(* lastSynced is kept as the number of days elapsed since the write        *)
(* (now - lastSynced), which is all cleanupOldSyncInfo looks at.           *)
(* Error messages are sequences of tokens; String.includes is membership   *)
(* of a token.                                                             *)
(***************************************************************************)
EXTENDS Integers, Sequences, FiniteSets, Bags, TLC

\* ---------------------------------------------------------------- bounds
MaxSrcId == 2
MaxStamp == 2
MaxFetch == 2
MaxGid == 2
TickDays == 91
MaxTargets == 2
MaxPages == 2
MaxPageLen == 1
MaxDay == 100
MaxSpan == 1
MaxRuns == 3
MaxInstances == 2          \* SyncDatabase instances open on the data file at once
MaxLogCalls == 4           \* calls of logSync on the data file

\* ------------------------------------------------------ program constants
BATCH_SIZE == 5
maxRetries == 3
daysToKeep == 90

SrcIds == 1..MaxSrcId
Stamps == 1..MaxStamp
Gids == 1..MaxGid
\* GaroonEvent, reduced to the fields the engine's decisions read; the event
\* with the highest id is the private one
GaroonEvent ==
  {[id |-> n, updatedAt |-> t,
    visibilityType |-> IF n = MaxSrcId THEN "PRIVATE" ELSE "PUBLIC"] :
     n \in SrcIds, t \in Stamps}

\* every list of at most MaxFetch events the source may hand back: one id may
\* be listed more than once (the list is not deduplicated for a single
\* target), each time as the same snapshot of the event
FetchResults ==
  {f \in UNION {[1..n -> GaroonEvent] : n \in 0..MaxFetch} :
     \A a, b \in DOMAIN f : f[a].id = f[b].id => f[a] = f[b]}

VARIABLES
  source,           \* what the Garoon schedule API returned last
  google,           \* events existing in the Google calendar
  nextGid,          \* next id the Google calendar assigns
  db,               \* SyncDatabase data.events
  runLog,           \* log entries appended by logSync during the current run
  syncStats,        \* SyncService.syncStats
  phase,            \* position of syncEvents
  events,           \* const events (fetch result of the run)
  garoonEventIds,   \* const garoonEventIds
  filteredEvents,   \* const filteredEvents
  i,                \* loop variable of the batch loop (0-based offset)
  pipes,            \* the syncEvent promises of the current batch
  syncedEvents,     \* const syncedEvents of deleteRemovedEvents
  j,                \* position of the for-of loop over syncedEvents
  sent,             \* notifications handed to the sink during the run
  calls,            \* history: adapter calls issued during the run
  created,          \* history: ids returned by successful createEvent calls
  orphanLog,        \* history: what each deleteEvent of the run reported
  swept,            \* history: fetched <<id, stamp>> whose record the last cleanup removed
  okAtStart,        \* history: <<id, stamp>> synced successfully before this run
  lastRun,          \* history: how the previous syncEvents ended
  twice,            \* history: this run follows an error-free run, same fetch and config
  stable,           \* environment: source frozen, no faults, no outside edits
  config,           \* the configuration the last run read
  fetch,            \* getScheduleFromMultipleTargets: one page stream per target
  trial,            \* an adapter operation under test: its answers and result
  probe,            \* a function of the clients under test: its input and output
  sched,            \* the scheduler process: the data file and the runs it has started
  server,           \* the Garoon server of a paginated fetch: the page behind each token
  journal           \* the data file's log and the SyncDatabase instances open on it

vars == <<source, google, nextGid, db, runLog,
          syncStats, phase, events, garoonEventIds, filteredEvents, i, pipes,
          syncedEvents, j, sent, calls, created, orphanLog, swept,
          okAtStart, lastRun, twice, stable, config, fetch, trial, probe, sched, server, journal>>

\* --------------------------------------------------------------- helpers
Min(a, b) == IF a < b THEN a ELSE b

Range(s) == {s[n] : n \in DOMAIN s}

AddToBag(B, e) == B (+) SetToBag({e})

RECURSIVE FilterSeq(_, _)
FilterSeq(s, keep) ==
  IF s = <<>> THEN <<>>
  ELSE IF Head(s) \in keep THEN <<Head(s)>> \o FilterSeq(Tail(s), keep)
       ELSE FilterSeq(Tail(s), keep)

\* a slice that takes one element more than asked for
Slice_long(s, from, to) == SubSeq(s, from + 1, Min(to + 1, Len(s)))

\* Array.prototype.slice(from, to) with a 0-based, end-exclusive range
Slice(s, from, to) == SubSeq(s, from + 1, Min(to, Len(s)))


\* ---------------------------------------------------------------- errors
\* The failures the Google API client raises: an Error object is its
\* message (a sequence of tokens) and its code property ("": none).
ErrorNames == {"NotFound", "Status404", "Gone", "Unavailable", "Forbidden", "TimedOut"}

RawError(name) ==
  CASE name = "NotFound"    -> [message |-> <<"Not Found">>, code |-> "404"]
    [] name = "Status404"   -> [message |-> <<"Request failed with status code", "404">>, code |-> "404"]
    [] name = "Gone"        -> [message |-> <<"Resource has been deleted">>, code |-> "410"]
    [] name = "Unavailable" -> [message |-> <<"Request failed with status code", "503">>, code |-> "503"]
    [] name = "Forbidden"   -> [message |-> <<"Forbidden">>, code |-> "403"]
    [] name = "TimedOut"    -> [message |-> <<"request failed, reason: connect ETIMEDOUT">>, code |-> "ETIMEDOUT"]

NoError == [message |-> <<>>, code |-> ""]

\* String.prototype.includes on a tokenised message
includes(message, needle) == needle \in Range(message)

\* String.prototype.toLowerCase on a tokenised message
toLowerCase(message) ==
  [n \in DOMAIN message |->
     CASE message[n] = "Not Found" -> "not found"
       [] message[n] = "Forbidden" -> "forbidden"
       [] message[n] = "Request failed with status code" -> "request failed with status code"
       [] message[n] = "Resource has been deleted" -> "resource has been deleted"
       [] message[n] = "request failed, reason: connect ETIMEDOUT" -> "request failed, reason: connect etimedout"
       [] message[n] = "ECONNRESET" -> "econnreset"
       [] message[n] = "ECONNREFUSED" -> "econnrefused"
       [] message[n] = "ETIMEDOUT" -> "etimedout"
       [] message[n] = "Rate Limit" -> "rate limit"
       [] message[n] = "Exceeded" -> "exceeded"
       [] message[n] = "Backend Error" -> "backend error"
       [] message[n] = "Bad Request" -> "bad request"
       [] message[n] = "Invalid Credentials" -> "invalid credentials"
       [] message[n] = "Precondition Failed" -> "precondition failed"
       [] OTHER -> message[n]]

\* new Error(`${prefix}: ${error.message}`): the code property is not copied
WrapError(prefix, error) == [message |-> <<prefix>> \o error.message, code |-> ""]

\* what one attempt of an API request can answer, given whether the event
\* addressed exists; faults are the transient failures of the service
Faults(quiet) == IF quiet THEN {} ELSE {"Unavailable", "Forbidden"}

InsertAnswers(quiet, room) == (IF room THEN {"OK"} ELSE {}) \cup Faults(quiet)

UpdateAnswers(quiet, exists) ==
  (IF exists THEN {"OK"} ELSE {"NotFound", "Status404"}) \cup Faults(quiet)

DeleteAnswers(quiet, exists) ==
  (IF exists THEN {"OK"} ELSE {"NotFound", "Status404", "Gone"}) \cup Faults(quiet)

GetAnswers(quiet, exists) ==
  (IF exists THEN {"OK"} ELSE {"NotFound", "Status404"}) \cup Faults(quiet)

\* ----------------------------------------------------------- retry policy
isRetryableError(error) ==
  LET message == toLowerCase(error.message) IN
  \/ includes(message, "network") \/ includes(message, "timeout")
  \/ includes(message, "econnreset") \/ includes(message, "econnrefused")
  \/ includes(message, "socket")
  \/ includes(message, "429") \/ includes(message, "rate limit")
  \/ includes(message, "500") \/ includes(message, "502")
  \/ includes(message, "503") \/ includes(message, "504")
  \/ error.code \in {"ECONNRESET", "ETIMEDOUT", "ECONNREFUSED"}

\* the retry loop with one attempt less than configured
RECURSIVE retryLoop_short(_, _)
retryLoop_short(results, attempt) ==
  LET r == results[attempt + 1] IN
  IF r.ok THEN [ok |-> TRUE, error |-> NoError, attempts |-> attempt + 1]
  ELSE IF attempt = maxRetries - 1 \/ ~isRetryableError(r.error)
       THEN [ok |-> FALSE, error |-> r.error, attempts |-> attempt + 1]
       ELSE retryLoop_short(results, attempt + 1)

\* withRetry over the results fn() gives in successive attempts: each result
\* is [ok, error].  Yields the settled result and the number of calls of fn.
RECURSIVE retryLoop(_, _)
retryLoop(results, attempt) ==
  LET r == results[attempt + 1] IN
  IF r.ok THEN [ok |-> TRUE, error |-> NoError, attempts |-> attempt + 1]
  ELSE IF attempt = maxRetries \/ ~isRetryableError(r.error)
       THEN [ok |-> FALSE, error |-> r.error, attempts |-> attempt + 1]
       ELSE retryLoop(results, attempt + 1)

withRetry(results) == retryLoop(results, 0)

\* the answers of maxRetries + 1 attempts: m answers the default classifier
\* retries on, then one answer repeated.  The loop stops at the first answer
\* it does not retry on, so answers after that one are never asked for.
Attempts(answers) ==
  LET again == {x \in answers : x # "OK" /\ isRetryableError(RawError(x))} IN
  UNION {{[n \in 1..(maxRetries + 1) |-> IF n <= m THEN pre[n] ELSE last] :
            pre \in [1..m -> again], last \in answers} : m \in 0..maxRetries}

\* ------------------------------------------------- Google Calendar adapter
\* fn of createEvent / updateEvent / deleteEvent: the API call inside
\* try/catch, a failure re-thrown under the method's own prefix
adapterResults(prefix, a) ==
  [n \in DOMAIN a |->
     IF a[n] = "OK" THEN [ok |-> TRUE, error |-> NoError]
     ELSE [ok |-> FALSE, error |-> WrapError(prefix, RawError(a[n]))]]

createEvent(a) == withRetry(adapterResults("event create failed", a))

updateEvent(a) == withRetry(adapterResults("event update failed", a))

deleteEvent(a) == withRetry(adapterResults("event delete failed", a))

\* fn of withRetry(() => this.client.get(...)): the failure is thrown as it is
requestResults(a) ==
  [n \in DOMAIN a |->
     IF a[n] = "OK" THEN [ok |-> TRUE, error |-> NoError]
     ELSE [ok |-> FALSE, error |-> RawError(a[n])]]

\* getEvent that looks for 404 in the message instead of the code
getEvent_byMessage(answer) ==
  IF answer = "OK" THEN [ok |-> TRUE, value |-> "found", error |-> NoError]
  ELSE IF includes(RawError(answer).message, "404")
       THEN [ok |-> TRUE, value |-> "absent", error |-> NoError]
       ELSE [ok |-> FALSE, value |-> "absent",
             error |-> WrapError("event get failed", RawError(answer))]

\* getEvent without its 404 branch: every failure is thrown
getEvent_no404(answer) ==
  IF answer = "OK" THEN [ok |-> TRUE, value |-> "found", error |-> NoError]
  ELSE [ok |-> FALSE, value |-> "absent",
        error |-> WrapError("event get failed", RawError(answer))]

\* getEvent is a single API call: "found", null ("absent") on code 404, and
\* any other failure thrown
getEvent(answer) ==
  IF answer = "OK" THEN [ok |-> TRUE, value |-> "found", error |-> NoError]
  ELSE IF RawError(answer).code = "404"
       THEN [ok |-> TRUE, value |-> "absent", error |-> NoError]
       ELSE [ok |-> FALSE, value |-> "absent",
             error |-> WrapError("event get failed", RawError(answer))]

\* ------------------------------------------------------- sync-state store
SyncedEventInfo ==
  [garoonEventId : SrcIds, googleEventId : Gids,
   lastSynced : 0..(daysToKeep + 1), garoonUpdatedAt : Stamps]

\* null result of getSyncInfo
NoSyncInfo == [googleEventId |-> 0, lastSynced |-> 0, garoonUpdatedAt |-> 0]

getSyncInfo(d, garoonEventId) ==
  IF \E r \in d : r.garoonEventId = garoonEventId
  THEN LET event == CHOOSE r \in d : r.garoonEventId = garoonEventId IN
       [googleEventId |-> event.googleEventId, lastSynced |-> event.lastSynced,
        garoonUpdatedAt |-> event.garoonUpdatedAt]
  ELSE NoSyncInfo

\* saveSyncInfo as a plain insert that keeps what is already there
saveSyncInfo_insert(d, garoonEventId, googleEventId, garoonUpdatedAt) ==
  d \cup {[garoonEventId |-> garoonEventId, googleEventId |-> googleEventId,
           lastSynced |-> 0, garoonUpdatedAt |-> garoonUpdatedAt]}

\* saveSyncInfo with its last two arguments stored in each other's field
saveSyncInfo_swap(d, garoonEventId, googleEventId, garoonUpdatedAt) ==
  {r \in d : r.garoonEventId # garoonEventId}
    \cup {[garoonEventId |-> garoonEventId, googleEventId |-> garoonUpdatedAt,
           lastSynced |-> 0, garoonUpdatedAt |-> googleEventId]}

\* events[garoonEventId] = {...}: the entry of this key is replaced
saveSyncInfo(d, garoonEventId, googleEventId, garoonUpdatedAt) ==
  {r \in d : r.garoonEventId # garoonEventId}
    \cup {[garoonEventId |-> garoonEventId, googleEventId |-> googleEventId,
           lastSynced |-> 0, garoonUpdatedAt |-> garoonUpdatedAt]}

deleteSyncInfo(d, garoonEventId) == {r \in d : r.garoonEventId # garoonEventId}

\* the place of an entry in Object.entries order: integer-like keys
\* ascending, then the other keys; an entry without garoonEventId (0) is one
\* saved under a key such as "undefined", "null" or ""
keyOrder(r) ==
  IF r.garoonEventId = 0 THEN MaxSrcId + r.googleEventId ELSE r.garoonEventId

\* the entries in Object.entries order
RECURSIVE getAllSyncedEvents(_)
getAllSyncedEvents(d) ==
  IF d = {} THEN <<>>
  ELSE LET first == CHOOSE r \in d : \A q \in d : keyOrder(r) <= keyOrder(q)
       IN <<first>> \o getAllSyncedEvents(d \ {first})

deleteSyncInfoByGoogleEventId(d, googleEventId) ==
  LET all == getAllSyncedEvents(d)
      hits == {n \in DOMAIN all : all[n].googleEventId = googleEventId}
  IN IF hits = {} THEN d
     ELSE d \ {all[CHOOSE n \in hits : \A m \in hits : n <= m]}

cleanupOldSyncInfo(d) == {r \in d : ~(r.lastSynced > daysToKeep)}

logSync(log, action, garoonEventId, googleEventId, details) ==
  AddToBag(log, [action |-> action, garoon_event_id |-> garoonEventId,
                 google_event_id |-> googleEventId, details |-> details])


\* ------------------------------------------------------------ SyncService
NoStats == [added |-> 0, updated |-> 0, deleted |-> 0, errors |-> 0]

\* resetSyncStats that leaves the counters as the last run left them
resetSyncStats_keep == syncStats

resetSyncStats == NoStats

\* events.filter(...) of syncEvents
filterPrivate(evs, exclude) ==
  FilterSeq(evs, {e \in GaroonEvent : ~(exclude /\ e.visibilityType = "PRIVATE")})

\* syncEvent that takes every event with an entry as changed
syncEvent_stale(d, garoonEvent, slot) ==
  LET syncInfo == getSyncInfo(d, garoonEvent.id) IN
  IF syncInfo = NoSyncInfo
  THEN [event |-> garoonEvent, slot |-> slot, state |-> "createEvent",
        path |-> "create", googleEventId |-> 0, got |-> "", newId |-> 0]
  ELSE [event |-> garoonEvent, slot |-> slot, state |-> "getEvent",
        path |-> "update", googleEventId |-> syncInfo.googleEventId,
        got |-> "", newId |-> 0]

\* syncEvent up to its first await: the store lookup and the choice of action.
\* A pipeline is its event, its position in filteredEvents (slot), where it
\* stands (state), the googleEventId it read from the store, what the
\* calendar answered to its getEvent (got) and the id its createEvent returned
syncEvent(d, garoonEvent, slot) ==
  LET syncInfo == getSyncInfo(d, garoonEvent.id) IN
  IF syncInfo = NoSyncInfo
  THEN [event |-> garoonEvent, slot |-> slot, state |-> "createEvent",
        path |-> "create", googleEventId |-> 0, got |-> "", newId |-> 0]
  ELSE IF syncInfo.garoonUpdatedAt # garoonEvent.updatedAt
       THEN [event |-> garoonEvent, slot |-> slot, state |-> "getEvent",
             path |-> "update", googleEventId |-> syncInfo.googleEventId,
             got |-> "", newId |-> 0]
       ELSE [event |-> garoonEvent, slot |-> slot, state |-> "fulfilled",
             path |-> "unchanged", googleEventId |-> syncInfo.googleEventId,
             got |-> "", newId |-> 0]

Call(op, pipe) ==
  [op |-> op, src |-> pipe.event.id, gid |-> pipe.googleEventId, slot |-> pipe.slot]

\* the adapter calls and log entries of the first n pipelines as they start
RECURSIVE startedCalls(_, _)
startedCalls(ps, n) ==
  IF n = 0 THEN EmptyBag
  ELSE LET rest == startedCalls(ps, n - 1) IN
       CASE ps[n].state = "createEvent" -> AddToBag(rest, Call("create", ps[n]))
         [] ps[n].state = "getEvent" -> AddToBag(rest, Call("get", ps[n]))
         [] OTHER -> rest

RECURSIVE startedLogs(_, _, _)
startedLogs(log, ps, n) ==
  IF n = 0 THEN log
  ELSE LET rest == startedLogs(log, ps, n - 1) IN
       IF ps[n].state = "fulfilled"
       THEN logSync(rest, "UNCHANGED", ps[n].event.id, ps[n].googleEventId, "")
       ELSE rest

\* results.forEach that logs the ERROR entries without the event's id
RECURSIVE rejectedLogs_noId(_, _, _)
rejectedLogs_noId(log, ps, n) ==
  IF n = 0 THEN log
  ELSE LET rest == rejectedLogs_noId(log, ps, n - 1) IN
       IF ps[n].state = "rejected"
       THEN logSync(rest, "ERROR", 0, 0, "reason")
       ELSE rest

\* results.forEach of the batch loop: one ERROR entry per rejected promise
RECURSIVE rejectedLogs(_, _, _)
rejectedLogs(log, ps, n) ==
  IF n = 0 THEN log
  ELSE LET rest == rejectedLogs(log, ps, n - 1) IN
       IF ps[n].state = "rejected"
       THEN logSync(rest, "ERROR", ps[n].event.id, 0, "reason")
       ELSE rest

Settled(p) == p.state \in {"fulfilled", "rejected"}

Exists(g, id) == \E e \in g : e.id = id

\* isAlreadyDeleted of deleteRemovedEvents
isAlreadyDeleted(error) ==
  includes(error.message, "404") \/ includes(error.message, "Resource has been deleted")

InitEngine ==
  /\ source = <<>>
  /\ google = {}
  /\ nextGid = 1
  /\ db = {}
  /\ runLog = EmptyBag
  /\ syncStats = NoStats
  /\ phase = "idle"
  /\ events = <<>>
  /\ garoonEventIds = {}
  /\ filteredEvents = <<>>
  /\ i = 0
  /\ pipes = <<>>
  /\ syncedEvents = <<>>
  /\ j = 1
  /\ sent = <<>>
  /\ calls = EmptyBag
  /\ created = {}
  /\ orphanLog = {}
  /\ swept = {}
  /\ okAtStart = {}
  /\ lastRun = "none"
  /\ twice = FALSE
  /\ stable = FALSE
  /\ config = [excludePrivate |-> TRUE, notifyOnError |-> TRUE]

\* no multi-target fetch under way (single, legacy, target configured)
NoFetch == [streams |-> <<>>, failed |-> "none", partial |-> {}, returned |-> 0]
\* no adapter operation under test
NoResult == [ok |-> FALSE, value |-> "none", error |-> NoError, attempts |-> 0]
NoTrial == [op |-> "none", answers |-> <<>>, done |-> FALSE, result |-> NoResult]

\* no function under test
NoProbe == [fn |-> "none", input |-> <<>>, done |-> FALSE, output |-> <<>>]

\* no paginated fetch under test
NoServer == <<>>

\* no SyncDatabase under test
NoJournal == <<>>

\* the scheduler process is not running
NoSched == [file |-> {}, runs |-> <<>>, scheduled |-> FALSE, started |-> 0, nextGid |-> 1]

Init ==
  /\ InitEngine /\ fetch = NoFetch /\ trial = NoTrial /\ probe = NoProbe
  /\ sched = NoSched /\ server = NoServer /\ journal = NoJournal

runVars == <<events, garoonEventIds, filteredEvents, i, pipes, syncedEvents, j>>
histVars == <<calls, created, orphanLog, swept, okAtStart, lastRun, twice>>

\* ---- environment
\* the store as it is after `days` more days have passed since every write
aged(d, days) ==
  {[r EXCEPT !.lastSynced = Min(r.lastSynced + days, daysToKeep + 1)] : r \in d}

\* between two runs a calendar user removes an event the engine created
OutOfBandDelete ==
  /\ ~stable /\ phase = "idle"
  /\ \E g \in google : google' = google \ {g}
  /\ UNCHANGED <<source, nextGid, db, runLog, syncStats, phase, runVars,
                 sent, histVars, stable, config, fetch, trial, probe, sched, server, journal>>

\* ---- syncEvents
\* a run starts `gap` days after the previous one and getSchedule resolves
\* with `fetched`: stats reset, id set and filtered list built under the
\* run's config.sync.excludePrivate
StartRun(fetched, gap, excludePrivate) ==
  /\ source' = fetched
  /\ db' = aged(db, gap)
  /\ syncStats' = resetSyncStats
  /\ events' = fetched
  /\ garoonEventIds' = {e.id : e \in Range(fetched)}
  /\ filteredEvents' = filterPrivate(fetched, excludePrivate)
  /\ i' = 0
  /\ pipes' = <<>>
  /\ syncedEvents' = <<>>
  /\ j' = 1
  /\ phase' = "batch"
  /\ runLog' = EmptyBag
  /\ sent' = <<>>
  /\ calls' = EmptyBag
  /\ orphanLog' = {}
  /\ okAtStart' = {p \in {<<r.garoonEventId, r.garoonUpdatedAt>> : r \in db} \cup swept :
                      \E e \in Range(fetched) : p = <<e.id, e.updatedAt>>}
  /\ swept' = {}
  /\ twice' = (/\ lastRun = "clean" /\ fetched = source
               /\ excludePrivate = config.excludePrivate)
  /\ lastRun' = "running"
  /\ config' = [config EXCEPT !.excludePrivate = excludePrivate]
  /\ UNCHANGED <<google, nextGid, created, stable, trial, probe, sched, server, journal>>

\* single target: getScheduleFromTarget resolves with `fetched`
RunFetched(fetched, gap, excludePrivate) ==
  /\ phase = "idle"
  /\ stable => (fetched = source /\ excludePrivate = config.excludePrivate)
  /\ StartRun(fetched, gap, excludePrivate)
  /\ fetch' = NoFetch

\* ---- getSchedule with authConfig.targets configured
\* let allEvents = [], hasNext = true: a stream that awaits its first page
\* and carries no nextEventId; requests counts the settled requests, up to
\* MaxPages + 2
NewStream == [status |-> "pending", allEvents |-> <<>>, requests |-> 0, nextEventId |-> 0]

\* what withRetry(client.get) may settle with on the stream's next request:
\* a failure, or a page of events (snapshots consistent with the events
\* `seen` so far) that says whether more pages follow and, if so, names
\* the next page by a fresh nextEventId (0: none)
PageAnswers(stream, seen) ==
  {[ok |-> FALSE, events |-> <<>>, hasNext |-> FALSE, nextEventId |-> 0]} \cup
  {[ok |-> TRUE, events |-> es, hasNext |-> more,
    nextEventId |-> IF more THEN stream.requests + 1 ELSE 0] :
     es \in {f \in UNION {[1..n -> GaroonEvent] : n \in 0..MaxPageLen} :
               \A a \in DOMAIN f :
                 \A e \in seen \cup Range(f) : e.id = f[a].id => e = f[a]},
     more \in {m \in BOOLEAN : stream.requests + 1 = MaxPages => ~m}}

\* the loop turn that sends every request without the nextEventId parameter
nextPage_noToken(stream, answer) ==
  IF ~answer.ok
  THEN [stream EXCEPT !.status = "rejected", !.requests = Min(@ + 1, MaxPages + 2)]
  ELSE [status |-> IF answer.hasNext THEN "pending" ELSE "fulfilled",
        allEvents |-> stream.allEvents \o answer.events,
        requests |-> Min(stream.requests + 1, MaxPages + 2),
        nextEventId |-> 0]

\* one turn of the while (hasNext) loop of getScheduleFromTarget; a failure
\* leaves the loop through the catch block and rejects the promise
nextPage(stream, answer) ==
  IF ~answer.ok
  THEN [stream EXCEPT !.status = "rejected", !.requests = Min(@ + 1, MaxPages + 2)]
  ELSE [status |-> IF answer.hasNext THEN "pending" ELSE "fulfilled",
        allEvents |-> stream.allEvents \o answer.events,
        requests |-> Min(stream.requests + 1, MaxPages + 2),
        nextEventId |-> answer.nextEventId]

\* eventMap.set that adds the event without looking for its key
mapSet_append(eventMap, event) ==
  Append(eventMap, event)

\* eventMap.set(event.id, event): a Map keeps the place of the first insertion
mapSet(eventMap, event) ==
  IF \E n \in DOMAIN eventMap : eventMap[n].id = event.id
  THEN [n \in DOMAIN eventMap |->
          IF eventMap[n].id = event.id THEN event ELSE eventMap[n]]
  ELSE Append(eventMap, event)

\* for (const event of result.value)
RECURSIVE setAll(_, _, _)
setAll(eventMap, value, n) ==
  IF n = 0 THEN eventMap
  ELSE mapSet(setAll(eventMap, value, n - 1), value[n])

\* results.forEach that also takes the pages of a rejected stream
RECURSIVE mergeResults_partial(_, _)
mergeResults_partial(results, n) ==
  IF n = 0 THEN <<>>
  ELSE setAll(mergeResults_partial(results, n - 1), results[n].allEvents,
              Len(results[n].allEvents))

\* results.forEach: the values of the fulfilled promises, in target order
RECURSIVE mergeResults(_, _)
mergeResults(results, n) ==
  IF n = 0 THEN <<>>
  ELSE LET eventMap == mergeResults(results, n - 1) IN
       IF results[n].status = "fulfilled"
       THEN setAll(eventMap, results[n].allEvents, Len(results[n].allEvents))
       ELSE eventMap

\* Array.from(eventMap.values())
getScheduleFromMultipleTargets(results) ==
  mergeResults(results, Len(results))

\* the targets logged as failed, and whether these are all of them
Rejected(results) ==
  {t \in DOMAIN results : results[t].status = "rejected"}

failedScopes(results) ==
  IF Rejected(results) = {} THEN "none"
  ELSE IF Rejected(results) = DOMAIN results THEN "all" ELSE "some"

\* the sum of result.value.length over the fulfilled promises
RECURSIVE SumLen(_, _)
SumLen(results, n) ==
  IF n = 0 THEN 0
  ELSE SumLen(results, n - 1)
       + (IF results[n].status = "fulfilled" THEN Len(results[n].allEvents) ELSE 0)

\* syncEvents calls getSchedule: one getScheduleFromTarget per target starts
FetchStart(targets) ==
  /\ phase = "idle" /\ ~stable
  /\ phase' = "fetching"
  /\ syncStats' = resetSyncStats
  /\ fetch' = [NoFetch EXCEPT !.streams = [t \in 1..targets |-> NewStream]]
  /\ UNCHANGED <<source, google, nextGid, db, runLog, runVars, sent, histVars,
                 stable, config, trial, probe, sched, server, journal>>

\* a page request of target t settles
PageReturn(t) ==
  /\ phase = "fetching"
  /\ t \in DOMAIN fetch.streams
  /\ fetch.streams[t].status = "pending"
  /\ \E answer \in PageAnswers(fetch.streams[t],
                                UNION {Range(fetch.streams[u].allEvents) :
                                         u \in DOMAIN fetch.streams}) :
       fetch' = [fetch EXCEPT !.streams[t] = nextPage(@, answer)]
  /\ UNCHANGED <<source, google, nextGid, db, runLog, syncStats, phase, runVars,
                 sent, histVars, stable, config, trial, probe, sched, server, journal>>

\* Promise.allSettled resolves: getSchedule returns the merged events and
\* the run goes on with them
FetchSettled(gap, excludePrivate) ==
  /\ phase = "fetching"
  /\ \A t \in DOMAIN fetch.streams : fetch.streams[t].status # "pending"
  /\ StartRun(getScheduleFromMultipleTargets(fetch.streams), gap, excludePrivate)
  /\ fetch' = [streams |-> <<>>,
               failed |-> failedScopes(fetch.streams),
               partial |-> UNION {Range(fetch.streams[t].allEvents) :
                                    t \in Rejected(fetch.streams)},
               returned |-> SumLen(fetch.streams, Len(fetch.streams))]

\* getSchedule rejected: the catch block notifies, under the run's
\* config.teams.notifyOnError
RunAborted(notifyOnError) ==
  /\ phase = "idle" /\ ~stable
  /\ syncStats' = resetSyncStats
  /\ sent' = IF notifyOnError THEN <<[kind |-> "error", stats |-> NoStats]>> ELSE <<>>
  /\ phase' = "aborted"
  /\ lastRun' = "aborted"
  /\ config' = [config EXCEPT !.notifyOnError = notifyOnError]
  /\ UNCHANGED <<source, google, nextGid, db, runLog, runVars, calls, created,
                 orphanLog, swept, okAtStart, twice, stable, fetch, trial, probe, sched, server, journal>>

\* the catch block re-throws: syncEvents rejects and the service is dropped
Rethrow ==
  /\ phase = "aborted"
  /\ phase' = "idle"
  /\ sent' = <<>>
  /\ UNCHANGED <<source, google, nextGid, db, runLog, syncStats, runVars,
                 histVars, stable, config, fetch, trial, probe, sched, server, journal>>

\* batch.map(syncEvent): every pipeline of the batch runs to its first await
BatchStart ==
  /\ phase = "batch" /\ i < Len(filteredEvents)
  /\ LET batch == Slice(filteredEvents, i, i + BATCH_SIZE)
         ps == [k \in 1..Len(batch) |-> syncEvent(db, batch[k], i + k)]
     IN /\ pipes' = ps
        /\ calls' = calls (+) startedCalls(ps, Len(ps))
        /\ runLog' = startedLogs(runLog, ps, Len(ps))
  /\ phase' = "inflight"
  /\ UNCHANGED <<source, google, nextGid, db, syncStats, events,
                 garoonEventIds, filteredEvents, i, syncedEvents, j, sent,
                 created, orphanLog, swept, okAtStart, lastRun, twice,
                 stable, config, fetch, trial, probe, sched, server, journal>>


\* createGoogleEvent after createEvent settled
CreateReturn(k) ==
  /\ phase = "inflight" /\ k \in DOMAIN pipes /\ pipes[k].state = "createEvent"
  /\ \E a \in Attempts(InsertAnswers(stable, nextGid <= MaxGid)) :
       LET r == createEvent(a)
           garoonEvent == pipes[k].event
       IN IF r.ok
          THEN /\ google' = google \cup {[id |-> nextGid, garoonEventId |-> garoonEvent.id]}
               /\ nextGid' = nextGid + 1
               /\ created' = created \cup {nextGid}
               /\ db' = saveSyncInfo(db, garoonEvent.id, nextGid, garoonEvent.updatedAt)
               /\ runLog' = logSync(runLog, "CREATE", garoonEvent.id, nextGid, "")
               /\ syncStats' = [syncStats EXCEPT !.added = @ + 1]
               /\ pipes' = [pipes EXCEPT ![k] = [@ EXCEPT !.state = "fulfilled", !.newId = nextGid]]
          ELSE /\ pipes' = [pipes EXCEPT ![k] = [@ EXCEPT !.state = "rejected"]]
               /\ UNCHANGED <<google, nextGid, created, db, runLog, syncStats>>
  /\ UNCHANGED <<source, phase, events, garoonEventIds, filteredEvents,
                 i, syncedEvents, j, sent, calls, orphanLog, swept,
                 okAtStart, lastRun, twice, stable, config, fetch, trial, probe, sched, server, journal>>

\* updateGoogleEvent after getEvent settled
GetReturn(k) ==
  /\ phase = "inflight" /\ k \in DOMAIN pipes /\ pipes[k].state = "getEvent"
  /\ \E answer \in GetAnswers(stable, Exists(google, pipes[k].googleEventId)) :
       LET existingEvent == getEvent(answer)
           got == IF answer = "OK" THEN "found"
                  ELSE IF RawError(answer).code = "404" THEN "404" ELSE "error"
       IN
       IF ~existingEvent.ok
       THEN /\ pipes' = [pipes EXCEPT ![k] = [@ EXCEPT !.state = "rejected", !.got = got]]
            /\ UNCHANGED calls
       ELSE IF existingEvent.value = "absent"
            THEN /\ pipes' = [pipes EXCEPT ![k] = [@ EXCEPT !.state = "createEvent",
                                                           !.path = "recreate", !.got = got]]
                 /\ calls' = AddToBag(calls, Call("create", pipes[k]))
            ELSE /\ pipes' = [pipes EXCEPT ![k] = [@ EXCEPT !.state = "updateEvent", !.got = got]]
                 /\ calls' = AddToBag(calls, Call("update", pipes[k]))
  /\ UNCHANGED <<source, google, nextGid, db, runLog, syncStats, phase,
                 events, garoonEventIds, filteredEvents, i, syncedEvents, j,
                 sent, created, orphanLog, swept, okAtStart, lastRun,
                 twice, stable, config, fetch, trial, probe, sched, server, journal>>

\* updateGoogleEvent after updateEvent settled
UpdateReturn(k) ==
  /\ phase = "inflight" /\ k \in DOMAIN pipes /\ pipes[k].state = "updateEvent"
  /\ \E a \in Attempts(UpdateAnswers(stable, Exists(google, pipes[k].googleEventId))) :
       LET r == updateEvent(a)
           garoonEvent == pipes[k].event
           googleEventId == pipes[k].googleEventId
       IN IF r.ok
          THEN /\ db' = saveSyncInfo(db, garoonEvent.id, googleEventId, garoonEvent.updatedAt)
               /\ google' = {g \in google : g.id # googleEventId}
                              \cup {[id |-> googleEventId, garoonEventId |-> garoonEvent.id]}
               /\ runLog' = logSync(runLog, "UPDATE", garoonEvent.id, googleEventId, "")
               /\ syncStats' = [syncStats EXCEPT !.updated = @ + 1]
               /\ pipes' = [pipes EXCEPT ![k] = [@ EXCEPT !.state = "fulfilled"]]
          ELSE /\ pipes' = [pipes EXCEPT ![k] = [@ EXCEPT !.state = "rejected"]]
               /\ UNCHANGED <<google, db, runLog, syncStats>>
  /\ UNCHANGED <<source, nextGid, phase, events, garoonEventIds,
                 filteredEvents, i, syncedEvents, j, sent, calls, created,
                 orphanLog, swept, okAtStart, lastRun, twice, stable, config, fetch, trial, probe, sched, server, journal>>

\* Promise.allSettled resolved: the rejected promises are counted and logged
BatchSettle ==
  /\ phase = "inflight"
  /\ \A k \in DOMAIN pipes : Settled(pipes[k])
  /\ syncStats' = [syncStats EXCEPT
                     !.errors = @ + Cardinality({k \in DOMAIN pipes : pipes[k].state = "rejected"})]
  /\ runLog' = rejectedLogs(runLog, pipes, Len(pipes))
  /\ i' = i + BATCH_SIZE
  /\ pipes' = <<>>
  /\ phase' = "batch"
  /\ UNCHANGED <<source, google, nextGid, db, events, garoonEventIds,
                 filteredEvents, syncedEvents, j, sent, calls, created,
                 orphanLog, swept, okAtStart, lastRun, twice, stable, config, fetch, trial, probe, sched, server, journal>>

\* the loop head that takes every record as one of a removed event
RECURSIVE passOver_all(_, _, _, _)
passOver_all(d, list, ids, n) ==
  IF n > Len(list) THEN [db |-> d, j |-> n]
  ELSE IF list[n].garoonEventId = 0
       THEN passOver_all(deleteSyncInfoByGoogleEventId(d, list[n].googleEventId),
                         list, ids, n + 1)
       ELSE [db |-> d, j |-> n]

\* deleteRemovedEvents from iteration n up to its next await: records
\* without a garoonEventId are dropped, records still in Garoon are passed
\* over; stops at the first record whose event is to be deleted
RECURSIVE passOver(_, _, _, _)
passOver(d, list, ids, n) ==
  IF n > Len(list) THEN [db |-> d, j |-> n]
  ELSE IF list[n].garoonEventId = 0
       THEN passOver(deleteSyncInfoByGoogleEventId(d, list[n].googleEventId), list, ids, n + 1)
       ELSE IF list[n].garoonEventId \notin ids
            THEN [db |-> d, j |-> n]
            ELSE passOver(d, list, ids, n + 1)

\* deleteRemovedEvents: the enumeration of the store
OrphanStart ==
  /\ phase = "batch" /\ ~(i < Len(filteredEvents))
  /\ syncedEvents' = getAllSyncedEvents(db)
  /\ LET next == passOver(db, syncedEvents', garoonEventIds, 1) IN
       /\ db' = next.db
       /\ j' = next.j
  /\ phase' = "orphan"
  /\ UNCHANGED <<source, google, nextGid, runLog, syncStats, events,
                 garoonEventIds, filteredEvents, i, pipes, sent, histVars, stable, config, fetch, trial, probe, sched, server, journal>>

\* deleteRemovedEvents: deleteEvent settled for the record at j
OrphanStep ==
  /\ phase = "orphan" /\ j <= Len(syncedEvents)
  /\ LET syncedEvent == syncedEvents[j] IN
     \E a \in Attempts(DeleteAnswers(stable, Exists(google, syncedEvent.googleEventId))) :
       LET r == deleteEvent(a)
           reported == IF r.ok THEN "ok"
                       ELSE IF RawError(a[r.attempts]).code \in {"404", "410"}
                            THEN "absent" ELSE "error"
           removed == r.ok \/ isAlreadyDeleted(r.error)
           after == IF removed THEN deleteSyncInfo(db, syncedEvent.garoonEventId) ELSE db
           next == passOver(after, syncedEvents, garoonEventIds, j + 1)
       IN /\ calls' = AddToBag(calls, [op |-> "delete", src |-> syncedEvent.garoonEventId,
                                       gid |-> syncedEvent.googleEventId, slot |-> 0])
          /\ orphanLog' = orphanLog \cup {[garoonEventId |-> syncedEvent.garoonEventId,
                                           googleEventId |-> syncedEvent.googleEventId,
                                           reported |-> reported]}
          /\ db' = next.db
          /\ j' = next.j
          /\ IF r.ok
             THEN /\ google' = {g \in google : g.id # syncedEvent.googleEventId}
                  /\ runLog' = logSync(runLog, "DELETE", syncedEvent.garoonEventId,
                                       syncedEvent.googleEventId, "")
                  /\ syncStats' = [syncStats EXCEPT !.deleted = @ + 1]
             ELSE IF isAlreadyDeleted(r.error)
             THEN /\ runLog' = logSync(runLog, "DELETE", syncedEvent.garoonEventId,
                                       syncedEvent.googleEventId, "already deleted")
                  /\ syncStats' = [syncStats EXCEPT !.deleted = @ + 1]
                  /\ UNCHANGED google
             ELSE /\ syncStats' = [syncStats EXCEPT !.errors = @ + 1]
                  /\ runLog' = logSync(runLog, "ERROR", syncedEvent.garoonEventId,
                                       syncedEvent.googleEventId, "reason")
                  /\ UNCHANGED google
  /\ UNCHANGED <<source, nextGid, phase, events, garoonEventIds,
                 filteredEvents, i, pipes, syncedEvents, sent, created,
                 swept, okAtStart, lastRun, twice, stable, config, fetch, trial, probe, sched, server, journal>>

\* the notification branch that sends the summary only when nothing failed
notifyResult_inverted(out, stats, notifyOnError) ==
  IF notifyOnError
  THEN IF stats.errors > 0
       THEN out
       ELSE Append(out, [kind |-> "result", stats |-> stats])
  ELSE Append(out, [kind |-> "result", stats |-> stats])

\* the notification branch of syncEvents: sendSyncResultNotification with
\* the counters, always or only when errors > 0
notifyResult(out, stats, notifyOnError) ==
  IF notifyOnError
  THEN IF stats.errors > 0
       THEN Append(out, [kind |-> "result", stats |-> stats])
       ELSE out
  ELSE Append(out, [kind |-> "result", stats |-> stats])

\* the run has issued its last adapter call
RunDone == phase = "orphan" /\ ~(j <= Len(syncedEvents))

\* the tail of syncEvents: the summary notification, under the run's
\* config.teams.notifyOnError
Notify(notifyOnError) ==
  /\ RunDone
  /\ sent' = notifyResult(sent, syncStats, notifyOnError)
  /\ phase' = "notified"
  /\ config' = [config EXCEPT !.notifyOnError = notifyOnError]
  /\ UNCHANGED <<source, google, nextGid, db, runLog, syncStats, runVars,
                 histVars, stable, fetch, trial, probe, sched, server, journal>>

\* the tail of syncEvents: cleanupOldSyncInfo, and syncEvents resolves; the
\* service is left with the counters `stats`
EndRun(stats) ==
  /\ phase = "notified"
  /\ db' = cleanupOldSyncInfo(db)
  /\ swept' = {<<e.id, e.updatedAt>> : e \in {x \in Range(filteredEvents) :
                   \E r \in db \ cleanupOldSyncInfo(db) :
                      r.garoonEventId = x.id /\ r.garoonUpdatedAt = x.updatedAt}}
  /\ phase' = "idle"
  /\ lastRun' = IF syncStats.errors = 0 THEN "clean" ELSE "errors"
  /\ syncStats' = stats
  /\ runLog' = EmptyBag
  /\ sent' = <<>>
  /\ events' = <<>>
  /\ garoonEventIds' = {}
  /\ filteredEvents' = <<>>
  /\ i' = 0
  /\ pipes' = <<>>
  /\ syncedEvents' = <<>>
  /\ j' = 1
  /\ calls' = EmptyBag
  /\ orphanLog' = {}
  /\ okAtStart' = {}
  /\ twice' = FALSE
  /\ UNCHANGED <<source, google, nextGid, created, stable, config, fetch, trial, probe, sched, server, journal>>

\* syncEvents (module function) resolves: the service, made for this run,
\* is dropped with all it held
Finish == EndRun(NoStats)

\* service.syncEvents resolves and the caller keeps the service for its
\* next run
Return == EndRun(syncStats)

\* from here on the source is frozen, the services answer without faults and
\* nobody else edits the calendar
Stabilize ==
  /\ ~stable
  /\ stable' = TRUE
  /\ UNCHANGED <<source, google, nextGid, db, runLog, syncStats, phase,
                 runVars, sent, histVars, config, fetch, trial, probe, sched, server, journal>>

\* what the engine does, from the start of a run by the scheduler to its
\* end, on the shorter fetch results
Engine ==
  \/ \E fetched \in {f \in FetchResults : Len(f) < MaxFetch},
        gap \in {0, TickDays}, excludePrivate \in BOOLEAN :
       RunFetched(fetched, gap, excludePrivate)
  \/ \E notifyOnError \in BOOLEAN : RunAborted(notifyOnError)
  \/ Rethrow
  \/ BatchStart
  \/ \E k \in 1..BATCH_SIZE : CreateReturn(k)
  \/ \E k \in 1..BATCH_SIZE : GetReturn(k)
  \/ \E k \in 1..BATCH_SIZE : UpdateReturn(k)
  \/ BatchSettle
  \/ OrphanStart
  \/ OrphanStep
  \/ \E notifyOnError \in BOOLEAN : Notify(notifyOnError)
  \/ Finish

Next ==
  \/ OutOfBandDelete
  \/ \E fetched \in FetchResults, gap \in {0, TickDays}, excludePrivate \in BOOLEAN :
       RunFetched(fetched, gap, excludePrivate)
  \/ \E notifyOnError \in BOOLEAN : RunAborted(notifyOnError)
  \/ Rethrow
  \/ BatchStart
  \/ \E k \in 1..BATCH_SIZE : CreateReturn(k)
  \/ \E k \in 1..BATCH_SIZE : GetReturn(k)
  \/ \E k \in 1..BATCH_SIZE : UpdateReturn(k)
  \/ BatchSettle
  \/ OrphanStart
  \/ OrphanStep
  \/ \E notifyOnError \in BOOLEAN : Notify(notifyOnError)
  \/ Finish

Spec == Init /\ [][Next]_vars

\* a stable environment may set in at any time; the scheduler keeps starting
\* runs and every awaited call settles
NextLive == OutOfBandDelete \/ Stabilize \/ Engine

SpecLive == Init /\ [][NextLive]_vars /\ WF_vars(Engine)

\* a fetch result one event longer than a batch: n listings of event 1 (at
\* the given updatedAt), then listings of the last, private, event
LongFetch(n, updatedAt) ==
  [k \in 1..(BATCH_SIZE + 1) |->
     IF k <= n
     THEN [id |-> 1, updatedAt |-> updatedAt, visibilityType |-> "PUBLIC"]
     ELSE [id |-> MaxSrcId, updatedAt |-> 1, visibilityType |-> "PRIVATE"]]

\* runs over fetch results that take more than one batch
NextBatch ==
  \/ \E n \in {0, BATCH_SIZE - 1, BATCH_SIZE, BATCH_SIZE + 1},
          updatedAt \in Stamps, excludePrivate \in BOOLEAN :
       RunFetched(LongFetch(n, updatedAt), 0, excludePrivate)
  \/ BatchStart
  \/ \E k \in 1..BATCH_SIZE : CreateReturn(k)
  \/ \E k \in 1..BATCH_SIZE : GetReturn(k)
  \/ \E k \in 1..BATCH_SIZE : UpdateReturn(k)
  \/ BatchSettle
  \/ OrphanStart
  \/ OrphanStep
  \/ \E notifyOnError \in BOOLEAN : Notify(notifyOnError)
  \/ Finish

SpecBatch == Init /\ [][NextBatch]_vars

\* runs with authConfig.targets configured
NextScopes ==
  \/ \E targets \in 1..MaxTargets : FetchStart(targets)
  \/ \E t \in 1..MaxTargets : PageReturn(t)
  \/ \E excludePrivate \in BOOLEAN : FetchSettled(0, excludePrivate)
  \/ BatchStart
  \/ \E k \in 1..BATCH_SIZE : CreateReturn(k)
  \/ \E k \in 1..BATCH_SIZE : GetReturn(k)
  \/ \E k \in 1..BATCH_SIZE : UpdateReturn(k)
  \/ BatchSettle
  \/ OrphanStart
  \/ OrphanStep
  \/ \E notifyOnError \in BOOLEAN : Notify(notifyOnError)
  \/ Finish

SpecScopes == Init /\ [][NextScopes]_vars

\* ---- getScheduleFromTarget against one Garoon server, on its own
\* the values of nextEventId: 0 is "none" (undefined or empty, not sent)
Tokens == 0..MaxPages

\* a response of the schedule API: events, hasNext, nextEventId
Pages ==
  [ok : {TRUE},
   events : UNION {[1..n -> GaroonEvent] : n \in 0..MaxPageLen},
   hasNext : BOOLEAN,
   nextEventId : Tokens]

\* a server answers a request by the page behind the request's nextEventId
\* (behind 0 when the request carries none)
Books == [Tokens -> Pages]

NoPage == [ok |-> FALSE, events |-> <<>>, hasNext |-> FALSE, nextEventId |-> 0]

InitPages ==
  /\ InitEngine /\ trial = NoTrial /\ probe = NoProbe /\ sched = NoSched
  /\ server \in Books /\ journal = NoJournal
  /\ fetch = [NoFetch EXCEPT !.streams = <<NewStream>>]

\* allEvents is longer than any result of MaxPages + 1 different pages
Outgrown(stream) == Len(stream.allEvents) > (MaxPages + 1) * MaxPageLen

\* the awaited request settles with `answer` and the loop takes its turn
PageTurn(answer) ==
  /\ fetch.streams # <<>> /\ server # NoServer
  /\ fetch.streams[1].status = "pending"
  /\ ~Outgrown(fetch.streams[1])
  /\ fetch' = [fetch EXCEPT !.streams[1] = nextPage(@, answer)]
  /\ UNCHANGED <<source, google, nextGid, db, runLog, syncStats, phase, runVars,
                 sent, histVars, stable, config, trial, probe, sched, server, journal>>

\* the server answers the request
PageServed == PageTurn(server[fetch.streams[1].nextEventId])

\* the request fails for good (withRetry gives up)
PageFailed == PageTurn(NoPage)

NextPages == PageServed \/ PageFailed

\* every awaited request settles
SpecPages == InitPages /\ [][NextPages]_vars /\ WF_vars(NextPages)

\* ---- runs of one service that its caller keeps
NextService ==
  \/ OutOfBandDelete
  \/ \E fetched \in FetchResults, excludePrivate \in BOOLEAN :
       RunFetched(fetched, 0, excludePrivate)
  \/ \E notifyOnError \in BOOLEAN : RunAborted(notifyOnError)
  \/ Rethrow
  \/ BatchStart
  \/ \E k \in 1..BATCH_SIZE : CreateReturn(k)
  \/ \E k \in 1..BATCH_SIZE : GetReturn(k)
  \/ \E k \in 1..BATCH_SIZE : UpdateReturn(k)
  \/ BatchSettle
  \/ OrphanStart
  \/ OrphanStep
  \/ \E notifyOnError \in BOOLEAN : Notify(notifyOnError)
  \/ Return

SpecService == Init /\ [][NextService]_vars

\* ---- runs on a data file that holds entries without garoonEventId
\* the stores loadData may return from such a file: at most one entry per
\* key, some entry without garoonEventId
CorruptStores ==
  {d \in SUBSET [garoonEventId : 0..MaxSrcId, googleEventId : Gids,
                 lastSynced : {0}, garoonUpdatedAt : {1}] :
     /\ \E r \in d : r.garoonEventId = 0
     /\ \A r, q \in d : keyOrder(r) = keyOrder(q) => r = q}

\* the run starts with such a store; the calendar holds the events the
\* entries name
InitCorrupt ==
  /\ db \in CorruptStores
  /\ google = {[id |-> r.googleEventId, garoonEventId |-> r.garoonEventId] :
                 r \in {x \in db : \A q \in db : q.googleEventId = x.googleEventId
                                                  => q.garoonEventId <= x.garoonEventId}}
  /\ nextGid = MaxGid + 1
  /\ created = Gids
  /\ source = <<>> /\ runLog = EmptyBag /\ syncStats = NoStats /\ phase = "idle"
  /\ events = <<>> /\ garoonEventIds = {} /\ filteredEvents = <<>> /\ i = 0
  /\ pipes = <<>> /\ syncedEvents = <<>> /\ j = 1 /\ sent = <<>>
  /\ calls = EmptyBag /\ orphanLog = {} /\ swept = {} /\ okAtStart = {}
  /\ lastRun = "none" /\ twice = FALSE /\ stable = FALSE
  /\ config = [excludePrivate |-> TRUE, notifyOnError |-> TRUE]
  /\ fetch = NoFetch /\ trial = NoTrial /\ probe = NoProbe
  /\ sched = NoSched /\ server = NoServer /\ journal = NoJournal

SpecCorrupt == InitCorrupt /\ [][Engine]_vars

\* ---- the adapter operations and the retry policy on their own
\* what the service answers to the successive attempts of one call
TrialAnswers == [1..(maxRetries + 1) -> {"OK"} \cup ErrorNames]

InitAdapter ==
  /\ InitEngine /\ fetch = NoFetch /\ probe = NoProbe /\ sched = NoSched /\ server = NoServer /\ journal = NoJournal
  /\ trial \in [op : {"request", "create", "update", "delete", "get"},
                answers : TrialAnswers, done : {FALSE}, result : {NoResult}]

\* a call settles: what the caller gets and how many API requests were made
Settle(op, settled) ==
  /\ trial.op = op /\ ~trial.done
  /\ trial' = [trial EXCEPT !.done = TRUE,
                            !.result = [ok |-> settled.ok, value |-> settled.value,
                                        error |-> settled.error,
                                        attempts |-> settled.attempts]]
  /\ UNCHANGED <<source, google, nextGid, db, runLog, syncStats, phase, runVars,
                 sent, histVars, stable, config, fetch, probe, sched, server, journal>>

\* withRetry(() => this.client.get(...)) of the Garoon client
CallRequest ==
  LET r == withRetry(requestResults(trial.answers)) IN
  Settle("request", [ok |-> r.ok, value |-> "none", error |-> r.error,
                     attempts |-> r.attempts])

CallCreate ==
  LET r == createEvent(trial.answers) IN
  Settle("create", [ok |-> r.ok, value |-> "none", error |-> r.error,
                    attempts |-> r.attempts])

CallUpdate ==
  LET r == updateEvent(trial.answers) IN
  Settle("update", [ok |-> r.ok, value |-> "none", error |-> r.error,
                    attempts |-> r.attempts])

CallDelete ==
  LET r == deleteEvent(trial.answers) IN
  Settle("delete", [ok |-> r.ok, value |-> "none", error |-> r.error,
                    attempts |-> r.attempts])

\* getEvent issues its one request outside withRetry
CallGet ==
  LET r == getEvent(trial.answers[1]) IN
  Settle("get", [ok |-> r.ok, value |-> r.value, error |-> r.error,
                 attempts |-> 1])

NextAdapter == CallRequest \/ CallCreate \/ CallUpdate \/ CallDelete \/ CallGet

SpecAdapter == InitAdapter /\ [][NextAdapter]_vars

\* ---- getSchedule's check of its arguments, on its own
\* strings are sequences of characters
Digits == {"0", "1", "2", "3", "4", "5", "6", "7", "8", "9"}

\* /^\d{4}-\d{2}-\d{2}$/.test(s)
matchesDate(s) ==
  /\ Len(s) = 10
  /\ \A n \in {1, 2, 3, 4, 6, 7, 9, 10} : s[n] \in Digits
  /\ s[5] = "-" /\ s[8] = "-"

\* getSchedule that validates startDate only
getSchedule_startOnly(startDate, endDate, targets) ==
  IF ~matchesDate(startDate)
  THEN [thrown |-> "date format", requests |-> 0]
  ELSE [thrown |-> "", requests |-> IF targets > 0 THEN targets ELSE 1]

\* getSchedule up to its first await: the date check, then the first page
\* request of each configured target (targets = 0: the single legacy target)
getSchedule(startDate, endDate, targets) ==
  IF ~matchesDate(startDate) \/ ~matchesDate(endDate)
  THEN [thrown |-> "date format", requests |-> 0]
  ELSE [thrown |-> "", requests |-> IF targets > 0 THEN targets ELSE 1]

\* the date arguments tried: well-formed dates and every string that differs
\* from one by a replaced, removed or added character
SampleDates == {<<"2", "0", "2", "4", "-", "0", "1", "-", "3", "1">>,
                <<"2", "0", "2", "4", "-", "1", "2", "-", "0", "1">>}
OddChars == {"/", "-", "a", " ", "\n", "7"}

Replaced(s) ==
  {[s EXCEPT ![n] = c] : n \in DOMAIN s, c \in OddChars}
Removed(s) ==
  {SubSeq(s, 1, n - 1) \o SubSeq(s, n + 1, Len(s)) : n \in DOMAIN s}
Added(s) ==
  {SubSeq(s, 1, n) \o <<c>> \o SubSeq(s, n + 1, Len(s)) : n \in 0..Len(s), c \in OddChars}

DateArguments ==
  SampleDates \cup {<<>>}
    \cup UNION {Replaced(s) \cup Removed(s) \cup Added(s) : s \in {<<"2", "0", "2", "4", "-", "0", "1", "-", "3", "1">>}}

\* ---- convertToGoogleEvent, on its own
\* A calendar date is <<year, month, day>>; an instant (a Date object) is a
\* number of hours since 00:00 UTC of BaseDate.  The dates tried are the
\* MaxDay days after BaseDate: a year end, a leap day, month ends and the
\* days on which summer time begins.
BaseDate == <<2023, 12, 25>>

isLeap(year) ==
  (year % 4 = 0 /\ year % 100 # 0) \/ year % 400 = 0

daysInMonth(year, month) ==
  IF month = 2 THEN (IF isLeap(year) THEN 29 ELSE 28)
  ELSE IF month \in {4, 6, 9, 11} THEN 30 ELSE 31

\* the calendar date that follows a date
nextDate(date) ==
  IF date[3] < daysInMonth(date[1], date[2]) THEN <<date[1], date[2], date[3] + 1>>
  ELSE IF date[2] < 12 THEN <<date[1], date[2] + 1, 1>>
  ELSE <<date[1] + 1, 1, 1>>

\* the dates of the days 0, 1, .. after BaseDate
RECURSIVE datesFrom(_, _)
datesFrom(date, n) ==
  IF n = 0 THEN <<date>> ELSE <<date>> \o datesFrom(nextDate(date), n - 1)

Dates == datesFrom(BaseDate, MaxDay + 2)

DateOf(day) == Dates[day + 1]

DayOf(date) == CHOOSE day \in 0..(MaxDay + 2) : DateOf(day) = date

\* the time zone of the process: hours ahead of UTC in winter, and the date
\* on which clocks go from 02:00 to 03:00 (<<>>: no summer time)
TimeZones ==
  {[name |-> "UTC", offset |-> 0, summerFrom |-> <<>>],
   [name |-> "Asia/Tokyo", offset |-> 9, summerFrom |-> <<>>],
   [name |-> "Europe/Berlin", offset |-> 1, summerFrom |-> <<2024, 3, 31>>],
   [name |-> "America/New_York", offset |-> -5, summerFrom |-> <<2024, 3, 10>>]}

\* LocalTime(t): the wall-clock hours, counted from BaseDate 00:00, at an instant
LocalTime(t, zone) ==
  IF zone.summerFrom # <<>> /\ t >= 24 * DayOf(zone.summerFrom) + 2 - zone.offset
  THEN t + zone.offset + 1
  ELSE t + zone.offset

\* UTC(local): the instant at which the wall clock shows a local time
UTCTime(local, zone) ==
  IF zone.summerFrom # <<>> /\ local >= 24 * DayOf(zone.summerFrom) + 3
  THEN local - zone.offset - 1
  ELSE local - zone.offset

\* new Date("YYYY-MM-DD"): a date-only string is midnight UTC
newDate(date) == 24 * DayOf(date)

\* d.setDate(d.getDate() + 1): the next day on the wall clock, same time of day
setDatePlusOne(t, zone) ==
  UTCTime(LocalTime(t, zone) + 24, zone)

\* d.toISOString().split('T')[0]: the UTC date of the instant
toISODate(t) == DateOf(t \div 24)

\* garoonEvent.start/end.dateTime is [date, time]; the times distinguished
EventTimes == {"00:00:00", "23:59:59", "10:00:00"}

\* convertToGoogleEvent: start and end of the Google event, run in a process
\* whose local time zone is `zone`
convertToGoogleEvent(garoonEvent, zone) ==
  LET hasNoTime == /\ garoonEvent.start.time = "00:00:00"
                   /\ garoonEvent.end.time \in {"00:00:00", "23:59:59"}
      isAllDay == garoonEvent.isAllDay \/ garoonEvent.eventType = "ALL_DAY" \/ hasNoTime
      startDate == garoonEvent.start.date
      endDateRaw == garoonEvent.end.date
      endDateObj == setDatePlusOne(newDate(endDateRaw), zone)
  IN IF isAllDay
     THEN [allDay |-> TRUE, start |-> startDate, end |-> toISODate(endDateObj)]
     ELSE [allDay |-> FALSE, start |-> garoonEvent.start, end |-> garoonEvent.end]

\* the events tried: every start day, lasting up to MaxSpan further days
ConvertInputs ==
  {[event |-> [start |-> [date |-> DateOf(day), time |-> startTime],
               end |-> [date |-> DateOf(day + span), time |-> endTime],
               isAllDay |-> flag, eventType |-> type],
    zone |-> zone] :
     day \in 1..(MaxDay - MaxSpan), span \in 0..MaxSpan,
     startTime \in {"00:00:00", "10:00:00"}, endTime \in EventTimes,
     flag \in BOOLEAN, type \in {"REGULAR", "ALL_DAY"}, zone \in TimeZones}

\* ---- the two functions applied to their inputs
InitProbe ==
  /\ InitEngine /\ fetch = NoFetch /\ trial = NoTrial /\ sched = NoSched /\ server = NoServer /\ journal = NoJournal
  /\ probe \in [fn : {"getSchedule"},
                input : [startDate : DateArguments, endDate : DateArguments,
                         targets : 0..MaxTargets],
                done : {FALSE}, output : {<<>>}]
             \cup [fn : {"convertToGoogleEvent"}, input : ConvertInputs,
                   done : {FALSE}, output : {<<>>}]

Apply(fn, output) ==
  /\ probe.fn = fn /\ ~probe.done
  /\ probe' = [probe EXCEPT !.done = TRUE, !.output = output]
  /\ UNCHANGED <<source, google, nextGid, db, runLog, syncStats, phase, runVars,
                 sent, histVars, stable, config, fetch, trial, sched, server, journal>>

CallGetSchedule ==
  Apply("getSchedule",
        getSchedule(probe.input.startDate, probe.input.endDate, probe.input.targets))

CallConvert ==
  Apply("convertToGoogleEvent", convertToGoogleEvent(probe.input.event, probe.input.zone))

NextProbe == CallGetSchedule \/ CallConvert

SpecProbe == InitProbe /\ [][NextProbe]_vars

\* ---- the scheduler process: main of the scheduler script
\* syncEvents(configPath) is called: createSyncService builds a service
\* whose SyncDatabase reads the data file into this.data, and the run's
\* getSchedule resolves with `fetched`
NewRun(file, fetched) ==
  [data |-> file,
   garoonEventIds |-> {e.id : e \in Range(fetched)},
   todo |-> Range(filterPrivate(fetched, TRUE)),
   wrote |-> {}]

\* saveData of run r: the file is overwritten with the run's this.data
saveData(r, data, todo, wrote) ==
  [sched EXCEPT !.file = data,
                !.runs[r] = [@ EXCEPT !.data = data, !.todo = todo, !.wrote = wrote]]

\* main: "await syncEvents(configPath)" before cron.schedule
FirstRun(fetched) ==
  /\ sched.started = 0
  /\ sched' = [sched EXCEPT !.runs = <<NewRun(sched.file, fetched)>>, !.started = 1]
  /\ UNCHANGED <<source, google, nextGid, db, runLog, syncStats, phase, runVars,
                 sent, histVars, stable, config, fetch, trial, probe, server, journal>>

\* the callback given to cron.schedule is called at a matching minute
Tick(fetched) ==
  /\ sched.scheduled /\ sched.started < MaxRuns
  /\ sched' = [sched EXCEPT !.runs = Append(@, NewRun(sched.file, fetched)),
                            !.started = @ + 1]
  /\ UNCHANGED <<source, google, nextGid, db, runLog, syncStats, phase, runVars,
                 sent, histVars, stable, config, fetch, trial, probe, server, journal>>

\* a pipeline of run r resumes after its adapter call and writes the store:
\* saveSyncInfo after createEvent or updateEvent, logSync for an unchanged
\* event; each of them ends with saveData
RunSync(r) ==
  /\ r \in DOMAIN sched.runs
  /\ \E e \in sched.runs[r].todo :
       LET run == sched.runs[r]
           pipe == syncEvent(run.data, e, 0)
           googleEventId == IF pipe.path = "create" THEN sched.nextGid
                            ELSE pipe.googleEventId
           data == IF pipe.path = "unchanged" THEN run.data
                   ELSE saveSyncInfo(run.data, e.id, googleEventId, e.updatedAt)
       IN sched' = [saveData(r, data, run.todo \ {e}, run.wrote \cup {e.id})
                      EXCEPT !.nextGid = IF pipe.path = "create" THEN @ + 1 ELSE @]
  /\ UNCHANGED <<source, google, nextGid, db, runLog, syncStats, phase, runVars,
                 sent, histVars, stable, config, fetch, trial, probe, server, journal>>

\* the entries of run r that deleteRemovedEvents takes as removed from Garoon
removedEntries(run) == {x \in run.data : x.garoonEventId \notin run.garoonEventIds}

\* deleteRemovedEvents of run r resumes after deleteEvent: deleteSyncInfo
RunDelete(r) ==
  /\ r \in DOMAIN sched.runs
  /\ sched.runs[r].todo = {}
  /\ \E x \in removedEntries(sched.runs[r]) :
       LET run == sched.runs[r] IN
       sched' = saveData(r, deleteSyncInfo(run.data, x.garoonEventId), run.todo,
                         run.wrote \cup {x.garoonEventId})
  /\ UNCHANGED <<source, google, nextGid, db, runLog, syncStats, phase, runVars,
                 sent, histVars, stable, config, fetch, trial, probe, server, journal>>

\* the remaining runs once run r is over
Without(runs, r) == [n \in 1..(Len(runs) - 1) |-> IF n < r THEN runs[n] ELSE runs[n + 1]]

\* run r ends with cleanupOldSyncInfo and syncEvents resolves; main sets up
\* the schedule when the first run is over
RunEnd(r) ==
  /\ r \in DOMAIN sched.runs
  /\ sched.runs[r].todo = {} /\ removedEntries(sched.runs[r]) = {}
  /\ sched' = [sched EXCEPT !.file = cleanupOldSyncInfo(sched.runs[r].data),
                            !.runs = Without(@, r),
                            !.scheduled = TRUE]
  /\ UNCHANGED <<source, google, nextGid, db, runLog, syncStats, phase, runVars,
                 sent, histVars, stable, config, fetch, trial, probe, server, journal>>

NextSchedule ==
  \/ \E fetched \in FetchResults : FirstRun(fetched)
  \/ \E fetched \in FetchResults : Tick(fetched)
  \/ \E r \in 1..MaxRuns : RunSync(r)
  \/ \E r \in 1..MaxRuns : RunDelete(r)
  \/ \E r \in 1..MaxRuns : RunEnd(r)

SpecSchedule == Init /\ [][NextSchedule]_vars

\* ---- getScheduleFromMultipleTargets applied to settled fetches
\* Promise.allSettled that lists the outcomes in the order of settling
allSettled_byCompletion(promises, completed) ==
  [n \in DOMAIN completed |-> promises[completed[n]]]

\* await Promise.allSettled(targets.map(...)): the outcomes in the order of
\* the targets, whatever the order `completed` in which they settled
allSettled(promises, completed) ==
  [t \in DOMAIN promises |-> promises[t]]

\* a getScheduleFromTarget promise once settled; one scope may return a
\* snapshot of an event that differs from another scope's
SettledStreams ==
  {[status |-> status, allEvents |-> value, requests |-> 1, nextEventId |-> 0] :
     status \in {"fulfilled", "rejected"},
     value \in UNION {[1..n -> GaroonEvent] : n \in 0..MaxFetch}}

\* the orders in which n promises can settle
Orders(n) == {c \in [1..n -> 1..n] : \A a, b \in 1..n : c[a] = c[b] => a = b}

MergeInputs ==
  {[promises |-> promises, completed |-> completed] :
     promises \in UNION {[1..n -> SettledStreams] : n \in 1..MaxTargets},
     completed \in UNION {Orders(n) : n \in 1..MaxTargets}}

InitMerge ==
  /\ InitEngine /\ fetch = NoFetch /\ trial = NoTrial /\ sched = NoSched /\ server = NoServer /\ journal = NoJournal
  /\ probe \in {q \in [fn : {"getScheduleFromMultipleTargets"}, input : MergeInputs,
                        done : {FALSE}, output : {<<>>}] :
                   Len(q.input.promises) = Len(q.input.completed)}

CallMerge ==
  Apply("getScheduleFromMultipleTargets",
        getScheduleFromMultipleTargets(
          allSettled(probe.input.promises, probe.input.completed)))

NextMerge == CallMerge

SpecMerge == InitMerge /\ [][NextMerge]_vars

\* ---- SyncDatabase.logSync on the data file, by the instances open on it
\* the length above which logSync cuts the log, and the length it cuts it to
logCeiling == 1000
logKeep == 500

\* this.data.lastLogId++; this.data.logs.push({id, action, ...}); the log cut
\* to its last logKeep entries once longer than logCeiling
logSyncData(data, action) ==
  LET lastLogId == data.lastLogId + 1
      logs == Append(data.logs, [id |-> lastLogId, action |-> action])
  IN  [logs |-> IF Len(logs) > logCeiling
                THEN SubSeq(logs, Len(logs) - logKeep + 1, Len(logs))
                ELSE logs,
       lastLogId |-> lastLogId]

\* the data file: not yet written, or as it is after n calls of logSync by
\* one instance after another
InitJournal ==
  /\ InitEngine /\ fetch = NoFetch /\ trial = NoTrial /\ probe = NoProbe
  /\ sched = NoSched /\ server = NoServer
  /\ \E n \in {0, logCeiling - 2} :
       journal = [file |-> [logs |-> [k \in 1..n |-> [id |-> k, action |-> "ADD"]],
                           lastLogId |-> n],
                  open |-> <<>>, calls |-> 0]

\* new SyncDatabase(config): this.data = this.loadData()
OpenDatabase ==
  /\ journal # NoJournal /\ Len(journal.open) < MaxInstances
  /\ journal' = [journal EXCEPT !.open = Append(@, journal.file)]
  /\ UNCHANGED <<source, google, nextGid, db, runLog, syncStats, phase, runVars,
                sent, histVars, stable, config, fetch, trial, probe, sched, server>>

\* instance n calls logSync: the entry is added to its this.data, and
\* saveData writes this.data over the file
CallLogSync ==
  /\ journal # NoJournal /\ journal.calls < MaxLogCalls
  /\ \E n \in DOMAIN journal.open, action \in {"ADD", "ERROR"} :
       LET data == logSyncData(journal.open[n], action)
       IN  journal' = [journal EXCEPT !.open[n] = data, !.file = data, !.calls = @ + 1]
  /\ UNCHANGED <<source, google, nextGid, db, runLog, syncStats, phase, runVars,
                sent, histVars, stable, config, fetch, trial, probe, sched, server>>

\* the run that built the instance ends, the instance is dropped
DropDatabase ==
  /\ journal # NoJournal
  /\ \E n \in DOMAIN journal.open :
       journal' = [journal EXCEPT !.open = SubSeq(@, 1, n - 1) \o SubSeq(@, n + 1, Len(@))]
  /\ UNCHANGED <<source, google, nextGid, db, runLog, syncStats, phase, runVars,
                sent, histVars, stable, config, fetch, trial, probe, sched, server>>

NextJournal == OpenDatabase \/ CallLogSync \/ DropDatabase

SpecJournal == InitJournal /\ [][NextJournal]_vars

\* ---- the default classifier applied to the failures the clients meet
\* the HTTP statuses told apart; the server-side ones
Statuses == {"400", "401", "403", "404", "409", "410", "412", "429",
             "500", "501", "502", "503", "504", "507"}
ServerStatuses == {"500", "501", "502", "503", "504", "507"}

\* what the HTTP client of the Garoon adapter throws when no response arrives
ConnectionErrors ==
  {[error |-> [message |-> <<"read", "ECONNRESET">>, code |-> "ECONNRESET"],
    status |-> "", kind |-> "reset"],
   [error |-> [message |-> <<"socket", "hang up">>, code |-> "ECONNRESET"],
    status |-> "", kind |-> "reset"],
   [error |-> [message |-> <<"connect", "ETIMEDOUT">>, code |-> "ETIMEDOUT"],
    status |-> "", kind |-> "timeout"],
   [error |-> [message |-> <<"timeout", "of 30000ms exceeded">>, code |-> "ECONNABORTED"],
    status |-> "", kind |-> "timeout"],
   [error |-> [message |-> <<"connect", "ECONNREFUSED">>, code |-> "ECONNREFUSED"],
    status |-> "", kind |-> "refused"]}

\* the failures of the Google API client: the message is the one of the
\* response body when there is one
GoogleErrors ==
  {[error |-> [message |-> <<"Not Found">>, code |-> "404"], status |-> "404", kind |-> "status"],
   [error |-> [message |-> <<"Forbidden">>, code |-> "403"], status |-> "403", kind |-> "status"],
   [error |-> [message |-> <<"Rate Limit", "Exceeded">>, code |-> "403"], status |-> "403", kind |-> "rate"],
   [error |-> [message |-> <<"Rate Limit", "Exceeded">>, code |-> "429"], status |-> "429", kind |-> "rate"],
   [error |-> [message |-> <<"Resource has been deleted">>, code |-> "410"], status |-> "410", kind |-> "status"],
   [error |-> [message |-> <<"Bad Request">>, code |-> "400"], status |-> "400", kind |-> "status"],
   [error |-> [message |-> <<"Invalid Credentials">>, code |-> "401"], status |-> "401", kind |-> "status"],
   [error |-> [message |-> <<"Precondition Failed">>, code |-> "412"], status |-> "412", kind |-> "status"],
   [error |-> [message |-> <<"Backend Error">>, code |-> "500"], status |-> "500", kind |-> "status"],
   [error |-> [message |-> <<"Backend Error">>, code |-> "503"], status |-> "503", kind |-> "status"],
   [error |-> RawError("Unavailable"), status |-> "503", kind |-> "status"],
   [error |-> RawError("Status404"), status |-> "404", kind |-> "status"],
   [error |-> RawError("TimedOut"), status |-> "", kind |-> "timeout"],
   [error |-> [message |-> <<"request failed, reason:", "socket", "hang up">>, code |-> "ECONNRESET"],
    status |-> "", kind |-> "reset"]}

\* the errors handed to shouldRetry: the Garoon client's as thrown (for a
\* response with an error status, the message names the status), the Google
\* client's as createEvent, updateEvent and deleteEvent re-throw them
ClassifierInputs ==
  {[error |-> [message |-> <<"Request failed with status code", status>>,
               code |-> IF status \in ServerStatuses THEN "ERR_BAD_RESPONSE"
                        ELSE "ERR_BAD_REQUEST"],
    status |-> status, kind |-> "status"] : status \in Statuses}
    \cup ConnectionErrors
    \cup {[error |-> WrapError(prefix, g.error), status |-> g.status, kind |-> g.kind] :
            prefix \in {"event create failed", "event update failed", "event delete failed"},
            g \in GoogleErrors}

InitClassify ==
  /\ InitEngine /\ fetch = NoFetch /\ trial = NoTrial /\ sched = NoSched /\ server = NoServer /\ journal = NoJournal
  /\ probe \in [fn : {"isRetryableError"}, input : ClassifierInputs,
                done : {FALSE}, output : {<<>>}]

CallClassify == Apply("isRetryableError", isRetryableError(probe.input.error))

SpecClassify == InitClassify /\ [][CallClassify]_vars

\* ------------------------------------------------------------ properties
RECURSIVE SumCopies(_, _)
SumCopies(B, S) ==
  IF S = {} THEN 0
  ELSE LET c == CHOOSE x \in S : TRUE IN CopiesIn(c, B) + SumCopies(B, S \ {c})

\* number of adapter calls of one kind that the pipeline at a slot has issued
CallCount(op, slot) ==
  SumCopies(calls, {c \in BagToSet(calls) : c.op = op /\ c.slot = slot})

\* number of adapter calls of one kind issued in this run for one Garoon event
CallsFor(op, garoonEventId) ==
  SumCopies(calls, {c \in BagToSet(calls) : c.op = op /\ c.src = garoonEventId})

\* the identity fields of the entries kept for one garoonEventId
RecordsOf(d, garoonEventId) ==
  {[googleEventId |-> r.googleEventId, garoonUpdatedAt |-> r.garoonUpdatedAt] :
     r \in {x \in d : x.garoonEventId = garoonEventId}}

Ident(d) ==
  {[garoonEventId |-> r.garoonEventId, googleEventId |-> r.googleEventId,
    garoonUpdatedAt |-> r.garoonUpdatedAt] : r \in d}

\* C1: at any time at most one calendar event that the engine created and
\* that has not been deleted carries a given Garoon event id.
C1_NoDuplicateDestination ==
  \A a, b \in google : a.garoonEventId = b.garoonEventId => a = b

\* C2: a run that follows an error-free run and is handed the same fetch
\* result ends with added = 0, updated = 0 and deleted = 0.
C2_SecondRunReportsNothing ==
  (RunDone /\ twice) =>
     syncStats.added = 0 /\ syncStats.updated = 0 /\ syncStats.deleted = 0

\* C3: when the sync of a fetched event that had no entry in the store
\* succeeds (its createEvent resolves), exactly one create call has been
\* issued for the event, and the store keeps exactly one entry for the
\* event's id, holding the id that create returned and the event's updatedAt.
C3_CreateOnce ==
  [][\A k \in DOMAIN pipes :
       (/\ k \in DOMAIN pipes'
        /\ pipes[k].path = "create" /\ pipes[k].state = "createEvent"
        /\ pipes'[k].state = "fulfilled")
       => /\ CallsFor("create", pipes[k].event.id)' = 1
          /\ RecordsOf(db', pipes[k].event.id)
               = {[googleEventId |-> pipes'[k].newId,
                   garoonUpdatedAt |-> pipes[k].event.updatedAt]}]_vars

\* C4: a run issues no adapter call (get, create, update, delete) for a
\* fetched event that an earlier sync stored with the updatedAt it still has:
\* the store held that entry when the run started, or held it through the
\* run before, which found the event unchanged.
C4_NoCallsForSyncedUnchanged ==
  \A n \in DOMAIN filteredEvents :
     <<filteredEvents[n].id, filteredEvents[n].updatedAt>> \in okAtStart
       => \A c \in BagToSet(calls) : c.src # filteredEvents[n].id

\* C5: for a fetched event whose updatedAt differs from the garoonUpdatedAt
\* of its entry and whose calendar event is found to exist, exactly one
\* update call is issued, against the googleEventId of the entry; when the
\* update resolves the store keeps one entry for the event, with the same
\* googleEventId and the event's updatedAt.
C5_UpdateOnce ==
  /\ [](\A k \in DOMAIN pipes :
          pipes[k].got = "found"
          => /\ CallsFor("update", pipes[k].event.id) = 1
             /\ \A c \in BagToSet(calls) :
                  (c.op = "update" /\ c.src = pipes[k].event.id)
                  => c.gid = pipes[k].googleEventId)
  /\ [][\A k \in DOMAIN pipes :
          (/\ k \in DOMAIN pipes'
           /\ pipes[k].state = "updateEvent" /\ pipes'[k].state = "fulfilled")
          => RecordsOf(db', pipes[k].event.id)
               = {[googleEventId |-> pipes[k].googleEventId,
                   garoonUpdatedAt |-> pipes[k].event.updatedAt]}]_vars

\* C6: once the calendar has answered 404 to the getEvent of a pipeline, the
\* pipeline has issued one create call and the run has issued no update call
\* for the event; when that create
\* resolves, the store keeps one entry for the event, holding the id just
\* returned, which is not the one read before, and the event's updatedAt.
C6_RecreateWhenAbsent ==
  /\ [](\A k \in DOMAIN pipes :
          pipes[k].got = "404"
          => /\ CallCount("create", pipes[k].slot) = 1
             /\ CallsFor("update", pipes[k].event.id) = 0)
  /\ [][\A k \in DOMAIN pipes :
          (/\ k \in DOMAIN pipes'
           /\ pipes[k].path = "recreate" /\ pipes[k].state = "createEvent"
           /\ pipes'[k].state = "fulfilled")
          => /\ pipes'[k].newId \in created' \ created
             /\ pipes'[k].newId # pipes[k].googleEventId
             /\ RecordsOf(db', pipes[k].event.id)
                  = {[googleEventId |-> pipes'[k].newId,
                      garoonUpdatedAt |-> pipes[k].event.updatedAt]}]_vars

C6_Witness ==
  \E k \in DOMAIN pipes :
     pipes[k].got = "404" /\ pipes[k].path = "recreate" /\ pipes[k].state = "fulfilled"

\* C7: when the orphan pass is over, every entry it found without its id in
\* the fetch, and whose delete the calendar answered with success or with
\* "no such event", has had exactly one delete call for its googleEventId,
\* is gone from the store, and has been counted once in deleted.
C7_OrphansRemoved ==
  RunDone =>
    LET answered == {o \in orphanLog : o.reported \in {"ok", "absent"}} IN
    /\ \A o \in answered :
         /\ CopiesIn([op |-> "delete", src |-> o.garoonEventId,
                      gid |-> o.googleEventId, slot |-> 0], calls) = 1
         /\ RecordsOf(db, o.garoonEventId) = {}
    /\ syncStats.deleted = Cardinality(answered)

\* the state that C8 says is reached and kept
InSync ==
  /\ \A n \in DOMAIN source :
       source[n].visibilityType # "PRIVATE"
       => \E r \in db : /\ r.garoonEventId = source[n].id
                        /\ r.garoonUpdatedAt = source[n].updatedAt
                        /\ Exists(google, r.googleEventId)
  /\ \A r \in db : \E n \in DOMAIN source : source[n].id = r.garoonEventId
  /\ RunDone => syncStats = NoStats

\* C8: once the environment is stable (the fetch result stays the same, only
\* the engine changes the calendar, the calendar answers every call), and
\* while the calendar has room for new events, the system reaches and stays
\* in a state where every fetched public event has an entry with its
\* updatedAt and an existing calendar event, no entry is kept for an id that
\* is not fetched, and every run ends with added = updated = deleted =
\* errors = 0.
C8_EventuallyInSync ==
  <>[]((stable /\ nextGid <= MaxGid) => InSync)

\* C9: the googleEventId of every entry of the store is an id that a
\* createEvent of this engine returned.
C9_RecordedIdsWereCreated ==
  \A r \in db : r.googleEventId \in created

C9_Witness ==
  \E k \in DOMAIN pipes :
     /\ pipes[k].path = "recreate" /\ pipes[k].state = "fulfilled"
     /\ \E r \in db : r.garoonEventId = pipes[k].event.id
                       /\ r.googleEventId = pipes[k].newId

\* C10: the store keeps at most one entry per garoonEventId, and saving the
\* same garoonEventId, googleEventId and garoonUpdatedAt a second time leaves
\* the entries, as far as these three fields go, as the first save left them.
C10_OneRecordPerSource ==
  /\ \A a, b \in db : a.garoonEventId = b.garoonEventId => a = b
  /\ \A id \in SrcIds, gid \in Gids, ts \in Stamps :
       Ident(saveSyncInfo(saveSyncInfo(db, id, gid, ts), id, gid, ts))
         = Ident(saveSyncInfo(db, id, gid, ts))

C10_Witness ==
  /\ Cardinality(db) = 2
  /\ \E k \in DOMAIN pipes : pipes[k].path = "update" /\ pipes[k].state = "fulfilled"

\* a getEvent (followed by the create that replaces the event) or a
\* deleteEvent of this run was answered "no such event" for this id
ReportedAbsent(googleEventId) ==
  \/ \E c \in BagToSet(calls) : c.op = "create" /\ c.gid = googleEventId
  \/ \E o \in orphanLog : o.googleEventId = googleEventId /\ o.reported = "absent"

\* C11: when a run has issued its last adapter call, no entry of the store
\* holds a googleEventId for which a getEvent or deleteEvent of this run was
\* answered that the event does not exist.
C11_NoRecordOfAbsentEvent ==
  RunDone => \A r \in db : ~ReportedAbsent(r.googleEventId)

\* the ERROR entry that the batch loop logs for an event
BatchError(garoonEventId) ==
  [action |-> "ERROR", garoon_event_id |-> garoonEventId, google_event_id |-> 0,
   details |-> "reason"]

\* the pipeline of the n-th event to sync has run: it issued an adapter call
\* or found the event unchanged
Processed(n) ==
  \/ \E c \in BagToSet(calls) : c.slot = n
  \/ \E e \in BagToSet(runLog) :
       e.action = "UNCHANGED" /\ e.garoon_event_id = filteredEvents[n].id

\* C12: a batch is left only when every pipeline of it has settled; the run
\* then goes on with the next batch, errors has grown by one per rejected
\* pipeline and the log by one ERROR entry with the id of each rejected
\* event; and when the run has issued its last call, the pipeline of every
\* event to sync, of every batch, has run.
C12_FailureIsolation ==
  /\ [][(phase = "inflight" /\ phase' # "inflight")
        => LET failed == {k \in DOMAIN pipes : pipes[k].state = "rejected"} IN
           /\ \A k \in DOMAIN pipes : Settled(pipes[k])
           /\ phase' = "batch" /\ i' = i + BATCH_SIZE
           /\ syncStats' = [syncStats EXCEPT !.errors = @ + Cardinality(failed)]
           /\ \A id \in SrcIds :
                CopiesIn(BatchError(id), runLog')
                  = CopiesIn(BatchError(id), runLog)
                    + Cardinality({k \in failed : pipes[k].event.id = id})
           /\ \A e \in BagToSet(runLog') :
                e.action = "ERROR" => e.garoon_event_id \in SrcIds]_vars
  /\ [](RunDone => \A n \in 1..Len(filteredEvents) : Processed(n))

C12_Witness ==
  /\ RunDone
  /\ Len(filteredEvents) > BATCH_SIZE
  /\ \E id \in SrcIds : BagIn(BatchError(id), runLog)
  /\ \E c \in BagToSet(calls) : c.slot > BATCH_SIZE
  /\ syncStats.added > 0

\* C13: in a run that follows a fetch in which every configured target
\* failed, no adapter call is issued and the store is left as it is.
C13_AllScopesFailedAborts ==
  [][fetch'.failed = "all" => (calls' = EmptyBag /\ db' = db)]_vars

\* the targets whose getScheduleFromTarget was fulfilled
Fulfilled(results) ==
  {t \in DOMAIN results : results[t].status = "fulfilled"}

\* C14: when getSchedule returns from a fetch in which some targets failed
\* and some succeeded, it has not thrown (the run goes on) and the events it
\* returns are exactly the events the succeeded targets returned; pages
\* received from a failed target add nothing.
C14_FailedScopesExcluded ==
  [][(/\ phase = "fetching" /\ phase' # "fetching"
      /\ Rejected(fetch.streams) # {} /\ Fulfilled(fetch.streams) # {})
     => /\ phase' = "batch"
        /\ Range(events')
             = UNION {Range(fetch.streams[t].allEvents) : t \in Fulfilled(fetch.streams)}]_vars

C14_Witness ==
  /\ phase = "batch" /\ fetch.failed = "some"
  /\ events # <<>>
  /\ \E e \in fetch.partial : e \notin Range(events)

\* C20: the events a multi-target getSchedule returns list no id twice and
\* list every id that a succeeded target returned.
C20_MergedOncePerIdentity ==
  [][(phase = "fetching" /\ phase' # "fetching")
     => /\ \A a, b \in DOMAIN events' : events'[a].id = events'[b].id => a = b
        /\ \A t \in Fulfilled(fetch.streams) :
             \A e \in Range(fetch.streams[t].allEvents) :
               \E n \in DOMAIN events' : events'[n].id = e.id]_vars

C20_Witness ==
  /\ phase = "batch" /\ fetch.failed = "none"
  /\ Len(events) = MaxSrcId
  /\ fetch.returned > Len(events)

\* C15: when syncEvents has caught an error that aborts the run and is about
\* to re-throw it, an error notification has been handed to the sink,
\* whatever config.teams.notifyOnError is.
C15_AbortIsNotified ==
  phase = "aborted" => \E n \in DOMAIN sent : sent[n].kind = "error"

\* what fn of the trial's withRetry call gives in its successive attempts:
\* the raw failure for a Garoon request, the re-thrown one for the adapter
Thrown(op, answers) ==
  IF op = "request" THEN requestResults(answers)
  ELSE adapterResults(CASE op = "create" -> "event create failed"
                        [] op = "update" -> "event update failed"
                        [] OTHER -> "event delete failed", answers)

\* C16: withRetry calls fn maxRetries + 1 times and throws the last failure
\* when every attempt fails with a retryable error; calls it once and throws
\* when the first failure is not retryable; and makes no call after a
\* successful one, whose result it returns.
C16_RetryBound ==
  (trial.done /\ trial.op \in {"request", "create", "update", "delete"})
    => LET rs == Thrown(trial.op, trial.answers)
           n == trial.result.attempts
       IN /\ n \in 1..(maxRetries + 1)
          /\ (\A k \in DOMAIN rs : ~rs[k].ok /\ isRetryableError(rs[k].error))
               => (/\ n = maxRetries + 1 /\ ~trial.result.ok
                   /\ trial.result.error = rs[maxRetries + 1].error)
          /\ (~rs[1].ok /\ ~isRetryableError(rs[1].error))
               => (n = 1 /\ ~trial.result.ok /\ trial.result.error = rs[1].error)
          /\ \A k \in DOMAIN rs : rs[k].ok => n <= k
          /\ trial.result.ok = rs[n].ok

C16_Witness ==
  /\ trial.done /\ trial.op = "request"
  /\ trial.answers[1] = "Unavailable" /\ trial.answers[2] = "TimedOut"
  /\ trial.answers[3] = "Unavailable" /\ trial.answers[maxRetries + 1] = "TimedOut"
  /\ trial.result.attempts = maxRetries + 1 /\ ~trial.result.ok

\* C17: whichever of create, update, delete and get is called, a first
\* attempt that fails with an error the retry policy classifies as
\* retryable is followed by another attempt.
C17_AllOperationsRetried ==
  (/\ trial.done /\ trial.op \in {"create", "update", "delete", "get"}
   /\ trial.answers[1] # "OK" /\ isRetryableError(RawError(trial.answers[1])))
    => trial.result.attempts > 1

\* the answers by which the service says that no event has the id
NotFoundAnswers == {"NotFound", "Status404"}

\* C18: deleteEvent returns normally when the service answers that no event
\* exists at the id.
C18_DeleteOfAbsentSucceeds ==
  (/\ trial.done /\ trial.op = "delete"
   /\ trial.answers[1] \in NotFoundAnswers)
    => trial.result.ok

\* C19: getEvent returns null, without throwing, when the service answers
\* not-found; it throws on every other failure and returns null in no other
\* case.
C19_GetAbsentOnlyOnNotFound ==
  (trial.done /\ trial.op = "get")
    => /\ trial.answers[1] \in NotFoundAnswers
            => (trial.result.ok /\ trial.result.value = "absent")
       /\ trial.answers[1] \in ErrorNames \ NotFoundAnswers => ~trial.result.ok
       /\ (trial.result.ok /\ trial.result.value = "absent")
            => trial.answers[1] \in NotFoundAnswers

C19_Witness ==
  /\ trial.done /\ trial.op = "get"
  /\ trial.answers[1] = "NotFound"
  /\ trial.result.ok /\ trial.result.value = "absent"

\* the summaries among the notifications handed to the sink
Summaries ==
  {n \in DOMAIN sent : sent[n].kind = "result"}

\* C23: when a run has passed its notification step, the sink has received
\* at most one summary: exactly one if notifyOnError is off, and if it is on
\* exactly one when errors > 0 and none when errors = 0; the summary carries
\* the counters of the run as they are after the orphan pass.  No summary is
\* sent before that step.
C23_OneSummaryPerRun ==
  /\ phase \in {"batch", "inflight", "orphan"} => Summaries = {}
  /\ phase = "notified"
       => /\ Cardinality(Summaries)
               = (IF config.notifyOnError /\ syncStats.errors = 0 THEN 0 ELSE 1)
          /\ \A n \in Summaries : sent[n].stats = syncStats
          /\ ~(j <= Len(syncedEvents))

C23_Witness ==
  /\ phase = "notified" /\ config.notifyOnError
  /\ syncStats.errors > 0 /\ syncStats.deleted > 0
  /\ Cardinality(Summaries) = 1

\* C24: in a run in which some targets failed and some succeeded, the orphan
\* pass issues no deleteEvent for a source event that Garoon returned on a
\* page of a failed target in this very run (so it still exists in Garoon).
C24_NoDeleteForFailedScope ==
  fetch.failed = "some"
    => \A c \in BagToSet(calls) :
         c.op = "delete" => ~\E e \in fetch.partial : e.id = c.src

\* C25: the pipelines of a batch are of pairwise different source events.
C25_OnePipelinePerIdentity ==
  \A a, b \in DOMAIN pipes : pipes[a].event.id = pipes[b].event.id => a = b

\* C26: no step of a run removes the store's entry of a source event that
\* the run's getSchedule returned and the run syncs.
C26_RecordKeptWhileFetched ==
  [][\A r \in db :
       (\E n \in DOMAIN filteredEvents : filteredEvents[n].id = r.garoonEventId)
         => \E q \in db' : q.garoonEventId = r.garoonEventId]_vars

\* C27: while a batch is in flight, the Google event that a fulfilled
\* pipeline created is the one the store's entry of its source event holds.
C27_CreatedEventIsRecorded ==
  \A k \in DOMAIN pipes :
    (pipes[k].state = "fulfilled" /\ pipes[k].newId # 0 /\ Exists(google, pipes[k].newId))
      => \E r \in db : /\ r.garoonEventId = pipes[k].event.id
                       /\ r.googleEventId = pipes[k].newId

\* the CREATE and UPDATE entries the run has logged so far
Synced ==
  {e \in BagToSet(runLog) : e.action \in {"CREATE", "UPDATE"}}

C29_OneBatchAtATime ==
  /\ [](/\ Len(pipes) <= BATCH_SIZE
        /\ \A k \in DOMAIN pipes :
             /\ pipes[k].slot = i + k
             /\ i + k <= Len(filteredEvents)
             /\ pipes[k].event = filteredEvents[i + k])
  /\ [][(\E k \in DOMAIN pipes' :
           \A m \in DOMAIN pipes : pipes[m].slot # pipes'[k].slot)
        => pipes = <<>>]_vars
  /\ [][(pipes # <<>> /\ pipes' = <<>>)
        => \A k \in DOMAIN pipes : Settled(pipes[k])]_vars

C29_Witness ==
  /\ phase = "inflight" /\ i = BATCH_SIZE
  /\ pipes # <<>>
  /\ \E k \in DOMAIN pipes : ~Settled(pipes[k])

\* C30: when a batch starts, each pipeline's action follows from the store's
\* entry of its event: create when there is none, update when the entry's
\* garoonUpdatedAt differs from the event's updatedAt, nothing otherwise.
\* The start of a batch changes neither the store nor the counters, logs one
\* UNCHANGED entry per pipeline that does nothing, and such a pipeline
\* never issues an adapter call.
C30_ActionFromStoreLookup ==
  /\ [][(phase = "batch" /\ phase' = "inflight")
        => /\ \A k \in DOMAIN pipes' :
                LET e == pipes'[k].event
                    rs == RecordsOf(db, e.id)
                IN pipes'[k].path
                     = (IF rs = {} THEN "create"
                        ELSE IF \E r \in rs : r.garoonUpdatedAt # e.updatedAt
                             THEN "update" ELSE "unchanged")
           /\ db' = db /\ syncStats' = syncStats
           /\ \A id \in SrcIds :
                SumCopies(runLog', {e \in BagToSet(runLog') :
                                      e.action = "UNCHANGED" /\ e.garoon_event_id = id})
                  = SumCopies(runLog, {e \in BagToSet(runLog) :
                                         e.action = "UNCHANGED" /\ e.garoon_event_id = id})
                    + Cardinality({k \in DOMAIN pipes' :
                                     pipes'[k].path = "unchanged" /\ pipes'[k].event.id = id})]_vars
  /\ [](\A k \in DOMAIN pipes :
          /\ pipes[k].path = "unchanged"
               => (/\ pipes[k].state = "fulfilled"
                   /\ \A c \in BagToSet(calls) : c.slot # pipes[k].slot)
          /\ pipes[k].path = "create"
               => \E c \in BagToSet(calls) : c.slot = pipes[k].slot /\ c.op = "create"
          /\ pipes[k].path = "update"
               => \E c \in BagToSet(calls) : c.slot = pipes[k].slot /\ c.op = "get")

C30_Witness ==
  /\ phase = "inflight"
  /\ \E k \in DOMAIN pipes : pipes[k].path = "unchanged"
  /\ \E k \in DOMAIN pipes : pipes[k].path = "update"

\* C21: getSchedule throws the date-format error and starts no request
\* whenever startDate or endDate is not four digits, a hyphen, two digits, a
\* hyphen and two digits, with one target or several; with two such strings
\* it goes on to its requests.
C21_MalformedDateRejected ==
  (probe.done /\ probe.fn = "getSchedule")
    => LET wellFormed(s) ==
             /\ Len(s) = 10
             /\ \A n \in DOMAIN s :
                  IF n \in {5, 8} THEN s[n] = "-" ELSE s[n] \in Digits
       IN IF wellFormed(probe.input.startDate) /\ wellFormed(probe.input.endDate)
          THEN probe.output.thrown = "" /\ probe.output.requests > 0
          ELSE probe.output.thrown = "date format" /\ probe.output.requests = 0

C21_Witness ==
  /\ probe.done /\ probe.fn = "getSchedule"
  /\ probe.input.targets > 1
  /\ probe.input.startDate = <<"2", "0", "2", "4", "-", "0", "1", "-", "3", "1">>
  /\ probe.input.endDate = <<"2", "0", "2", "4", "/", "0", "1", "-", "3", "1">>
  /\ probe.output.thrown = "date format" /\ probe.output.requests = 0

\* C22: an event converted as all-day gets the date of its start as start
\* date and the date after the date of its end as end date.
C22_AllDayEndExclusive ==
  (probe.done /\ probe.fn = "convertToGoogleEvent" /\ probe.output.allDay)
    => /\ probe.output.start = probe.input.event.start.date
       /\ probe.output.end = nextDate(probe.input.event.end.date)

\* the steps in which an adapter call of a pipeline of event `id` settles
\* with a failure
PipeFailed(id) ==
  \E k \in DOMAIN pipes \cap DOMAIN pipes' :
    /\ pipes[k].event.id = id
    /\ pipes[k].state # "rejected" /\ pipes'[k].state = "rejected"

\* the steps in which the orphan pass's deleteEvent for the entry of `id`
\* settles with a failure that does not say the event is absent
OrphanFailed(id) ==
  \E o \in orphanLog' \ orphanLog : o.garoonEventId = id /\ o.reported = "error"

\* the source events for which the run has logged a failure
FailedIds ==
  {e.garoon_event_id : e \in {x \in BagToSet(runLog) : x.action = "ERROR"}}

\* the step-local part of C31: a failed step leaves the entry and the
\* added, updated and deleted counters alone, and errors counts it once
C31_StepFrame ==
  /\ [][\A id \in SrcIds :
          (PipeFailed(id) \/ OrphanFailed(id))
            => /\ RecordsOf(db', id) = RecordsOf(db, id)
               /\ syncStats'.added = syncStats.added
               /\ syncStats'.updated = syncStats.updated
               /\ syncStats'.deleted = syncStats.deleted]_vars
  /\ [][(phase = "inflight" /\ phase' = "batch")
          => syncStats'.errors = syncStats.errors
               + Cardinality({k \in DOMAIN pipes : pipes[k].state = "rejected"})]_vars
  /\ [][\A id \in SrcIds :
          OrphanFailed(id) => syncStats'.errors = syncStats.errors + 1]_vars

\* C31: a step in which a create, get, update or orphan delete fails leaves
\* the store's entry of its event and the added, updated and deleted
\* counters as they were; errors grows by one per failed pipeline when the
\* batch settles and by one in a failed orphan delete; and the entry of an
\* event with a failure is still there, unchanged, when the run has ended,
\* so that the next run decides on the same action for it.
C31_FailureLeavesRecord ==
  /\ C31_StepFrame
  /\ [][(phase = "notified" /\ phase' = "idle")
          => \A id \in FailedIds : RecordsOf(db', id) = RecordsOf(db, id)]_vars

\* C32: the scheduler has at most one run in progress at any time, and a
\* write of a run to the data file takes away or replaces no entry but the
\* one of the event it is about.
C32_NoOverlappingRuns ==
  /\ [](Len(sched.runs) <= 1)
  /\ [][\A x \in sched.file \ sched'.file :
          /\ Len(sched'.runs) = Len(sched.runs)
          /\ \E r \in DOMAIN sched.runs :
               x.garoonEventId \in sched'.runs[r].wrote \ sched.runs[r].wrote]_vars

\* the second part of C32 alone: no write to the file loses another entry
C32_NoLostEntry ==
  [][\A x \in sched.file \ sched'.file :
       /\ Len(sched'.runs) = Len(sched.runs)
       /\ \E r \in DOMAIN sched.runs :
            x.garoonEventId \in sched'.runs[r].wrote \ sched.runs[r].wrote]_vars

\* the pages a client meets that starts without a token and follows each
\* page's nextEventId while the page says hasNext, at most n of them
RECURSIVE visited(_, _, _)
visited(book, token, n) ==
  IF n = 0 THEN <<>>
  ELSE <<book[token]>>
         \o (IF book[token].hasNext THEN visited(book, book[token].nextEventId, n - 1)
             ELSE <<>>)

\* the events of the first n of these pages, in page order
RECURSIVE concat(_, _)
concat(pages, n) ==
  IF n = 0 THEN <<>> ELSE concat(pages, n - 1) \o pages[n].events

\* C33: getScheduleFromTarget resolves with the events of the pages from
\* the first one to the first page without hasNext, in page order; a request
\* carries the nextEventId of the page before it (the first carries none);
\* when it has settled after n requests, the n-th page is the first one
\* without hasNext (or the n-th request failed), and no request follows.
C33_PagesConcatenated ==
  /\ [](server # NoServer
          => LET stream == fetch.streams[1]
                 pages == visited(server, 0, MaxPages + 2)
                 n == stream.requests
             IN /\ stream.status = "fulfilled"
                     => /\ n = Len(pages)
                        /\ ~pages[n].hasNext
                        /\ \A m \in 1..(n - 1) : pages[m].hasNext
                        /\ stream.allEvents = concat(pages, n)
                /\ (stream.status = "pending" /\ n <= MaxPages + 1)
                     => /\ n <= Len(pages)
                        /\ stream.allEvents = concat(pages, n)
                        /\ stream.nextEventId = IF n = 0 THEN 0 ELSE pages[n].nextEventId
                /\ (stream.status = "rejected" /\ n <= MaxPages + 1)
                     => n - 1 <= Len(pages))
  /\ [][(server # NoServer /\ fetch.streams[1].status # "pending")
          => fetch' = fetch]_vars

C33_Witness ==
  /\ server # NoServer
  /\ fetch.streams[1].status = "fulfilled"
  /\ fetch.streams[1].requests = MaxPages + 1
  /\ Len(fetch.streams[1].allEvents) = MaxPages + 1
  /\ \A a, b \in DOMAIN fetch.streams[1].allEvents :
       fetch.streams[1].allEvents[a] = fetch.streams[1].allEvents[b] => a = b

\* C34: getScheduleFromTarget settles (or, at least, collects more events
\* than MaxPages + 1 different pages hold) whatever pages the server holds.
C34_FetchTerminates ==
  <>(server # NoServer
       => (fetch.streams[1].status # "pending" \/ Outgrown(fetch.streams[1])))

\* the values of the fulfilled promises one after the other, in the order
\* of the configured targets
RECURSIVE inTargetOrder(_, _)
inTargetOrder(promises, n) ==
  IF n = 0 THEN <<>>
  ELSE inTargetOrder(promises, n - 1)
         \o (IF promises[n].status = "fulfilled" THEN promises[n].allEvents ELSE <<>>)

\* C35: the merged result lists exactly the ids the succeeded targets
\* returned, each once, and holds for each id the snapshot returned by the
\* last configured target that returned it (the last one in that target's
\* list), in whatever order the fetches settled.
C35_LastScopeInConfiguredOrderWins ==
  (probe.done /\ probe.fn = "getScheduleFromMultipleTargets")
    => LET all == inTargetOrder(probe.input.promises, Len(probe.input.promises))
           out == probe.output
       IN /\ {e.id : e \in Range(out)} = {e.id : e \in Range(all)}
          /\ \A a, b \in DOMAIN out : out[a].id = out[b].id => a = b
          /\ \A a \in DOMAIN out :
               \E n \in DOMAIN all :
                 /\ all[n] = out[a]
                 /\ \A m \in DOMAIN all : all[m].id = out[a].id => m <= n

C35_Witness ==
  /\ probe.done /\ probe.fn = "getScheduleFromMultipleTargets"
  /\ Len(probe.input.promises) = 2
  /\ probe.input.completed = <<2, 1>>
  /\ \A t \in 1..2 : probe.input.promises[t].status = "fulfilled"
  /\ \E e1 \in Range(probe.input.promises[1].allEvents),
        e2 \in Range(probe.input.promises[2].allEvents) :
       /\ e1.id = e2.id /\ e1 # e2
       /\ e2 \in Range(probe.output) /\ e1 \notin Range(probe.output)

\* the entries without garoonEventId
Corrupt(d) == {r \in d : r.garoonEventId = 0}

\* C36: when the orphan pass is over the store holds no entry without
\* garoonEventId; no deleteEvent has been issued for such an entry; and an
\* entry with a garoonEventId leaves the store during the pass only as the
\* entry whose deleteEvent has just settled.
C36_CorruptRecordPruned ==
  /\ [](RunDone => Corrupt(db) = {})
  /\ [](\A c \in BagToSet(calls) : c.src # 0)
  /\ [][phase' = "orphan"
          => \A r \in (db \ db') \ Corrupt(db) :
               /\ phase = "orphan" /\ j <= Len(syncedEvents)
               /\ syncedEvents[j].garoonEventId = r.garoonEventId]_vars

\* C36 for stores in which no two entries name the same Google event
C36_PrunedWhenIdsDiffer ==
  /\ []((/\ RunDone
         /\ \A a, b \in DOMAIN syncedEvents :
              syncedEvents[a].googleEventId = syncedEvents[b].googleEventId => a = b)
          => Corrupt(db) = {})
  /\ [][(phase' = "orphan"
         /\ \A r, q \in db : r.googleEventId = q.googleEventId => r = q)
          => \A r \in (db \ db') \ Corrupt(db) :
               /\ phase = "orphan" /\ j <= Len(syncedEvents)
               /\ syncedEvents[j].garoonEventId = r.garoonEventId]_vars

\* the ids of the fetched events that the run leaves out as private
ExcludedIds ==
  IF config.excludePrivate
  THEN {e.id : e \in {x \in Range(events) : x.visibilityType = "PRIVATE"}}
  ELSE {}

\* the step leaves the entries and the Google events of the excluded
\* events as they are
ExcludedKept ==
  \A id \in ExcludedIds :
    /\ RecordsOf(db', id) = RecordsOf(db, id)
    /\ \A g \in google :
         (g.garoonEventId = id \/ \E r \in db : /\ r.garoonEventId = id
                                                /\ r.googleEventId = g.id)
           => g \in google'

\* C37: with excludePrivate set, no adapter call of the run is for a fetched
\* PRIVATE event, and no step of the run, from its first batch to its
\* return, changes or removes the store entry of such an event or removes
\* its Google event.
C37_PrivateEventUntouched ==
  /\ [](phase # "idle" => \A c \in BagToSet(calls) : c.src \notin ExcludedIds)
  /\ [][phase # "idle" => ExcludedKept]_vars

\* C37 for the steps of the run before its last one (cleanupOldSyncInfo)
C37_UntouchedBeforeCleanup ==
  /\ [](phase # "idle" => \A c \in BagToSet(calls) : c.src \notin ExcludedIds)
  /\ [][(phase # "idle" /\ phase # "notified") => ExcludedKept]_vars

\* how many entries with this action, and with a Google event id or
\* without one, the run has logged
Logged(action, withGoogleId) ==
  SumCopies(runLog, {e \in BagToSet(runLog) :
                       /\ e.action = action
                       /\ (e.google_event_id # 0) = withGoogleId})

\* C38: a run starts with all counters at zero; between two batches the
\* events counted as added or updated, logged UNCHANGED or counted as
\* failed are as many as the events of the batches done so far; once the
\* batch loop is over they are as many as filteredEvents holds, the failures
\* of the orphan pass being counted apart; and no pipeline issues an adapter
\* call twice.
C38_EveryEventAccountedOnce ==
  /\ [][(phase = "idle" /\ phase' = "batch") => syncStats' = NoStats]_vars
  /\ [](phase = "batch"
          => syncStats.added + syncStats.updated + Logged("UNCHANGED", TRUE)
               + syncStats.errors = Min(i, Len(filteredEvents)))
  /\ [](phase \in {"orphan", "notified"}
          => /\ syncStats.added + syncStats.updated + Logged("UNCHANGED", TRUE)
                  + Logged("ERROR", FALSE) = Len(filteredEvents)
             /\ syncStats.errors = Logged("ERROR", FALSE) + Logged("ERROR", TRUE))
  /\ [](\A c \in BagToSet(calls) : c.slot # 0 => CopiesIn(c, calls) = 1)

C38_Witness ==
  /\ phase = "notified" /\ twice
  /\ Len(filteredEvents) = MaxFetch
  /\ syncStats.added = 0 /\ syncStats.updated = 0 /\ syncStats.errors = 0
  /\ Logged("UNCHANGED", TRUE) = MaxFetch

\* the failures the retry policy is to retry on: connection reset, timeout,
\* refused connection, rate limiting, server-side statuses
Transient(failure) ==
  \/ failure.kind \in {"reset", "timeout", "refused", "rate"}
  \/ failure.status = "429"
  \/ failure.status \in ServerStatuses

\* C39: isRetryableError returns true for exactly the failures that are
\* connection resets, timeouts, refused connections, rate limiting or
\* server-side (5xx) responses.
C39_ClassifierExact ==
  (probe.done /\ probe.fn = "isRetryableError")
    => (probe.output <=> Transient(probe.input))

\* C39 for the responses with a client-side (4xx) status other than rate
\* limiting: never retryable
C39_ClientErrorsSurface ==
  (/\ probe.done /\ probe.fn = "isRetryableError"
   /\ probe.input.kind = "status" /\ probe.input.status \notin ServerStatuses \cup {"429"})
    => ~probe.output

\* the log `new` is the log `old` with one entry appended, cut to its newest
\* logKeep entries if that made it longer than logCeiling
AppendedTo(old, new) ==
  /\ new # <<>>
  /\ LET grown == Append(old, new[Len(new)])
     IN  \/ new = grown
         \/ /\ Len(grown) > logCeiling
            /\ new = SubSeq(grown, Len(grown) - logKeep + 1, Len(grown))

\* the ids of the log grow from the oldest entry to the newest
IdsIncrease(logs) == \A n \in 1..(Len(logs) - 1) : logs[n].id < logs[n + 1].id

\* C40: the log in the data file never holds more than 1000 entries; every
\* logSync leaves it as it was with one entry added at the end, less the
\* oldest entries when the ceiling was exceeded (the newest 500 kept in
\* order); the ids grow along the log and the id of a new entry was never
\* given to an entry before.
C40_LogAppendOnlyAndCapped ==
  /\ [](journal # NoJournal
          => /\ Len(journal.file.logs) <= logCeiling
             /\ IdsIncrease(journal.file.logs))
  /\ [][(journal # NoJournal /\ journal'.file # journal.file)
          => /\ AppendedTo(journal.file.logs, journal'.file.logs)
             /\ journal'.file.lastLogId > journal.file.lastLogId
             /\ journal'.file.logs[Len(journal'.file.logs)].id > journal.file.lastLogId]_vars

\* C40 for the calls of an instance whose this.data is what the file holds
C40_CurrentInstanceAppends ==
  /\ [](journal # NoJournal
          => /\ Len(journal.file.logs) <= logCeiling
             /\ IdsIncrease(journal.file.logs))
  /\ [][(/\ journal # NoJournal /\ journal'.file # journal.file
         /\ \E n \in DOMAIN journal.open :
              journal.open[n] = journal.file /\ journal'.open[n] = journal'.file)
          => /\ AppendedTo(journal.file.logs, journal'.file.logs)
             /\ journal'.file.lastLogId > journal.file.lastLogId
             /\ journal'.file.logs[Len(journal'.file.logs)].id > journal.file.lastLogId]_vars

\* a call of logSync has cut the log
C40_LogCut == journal # NoJournal /\ Len(journal.file.logs) = logKeep

====
